---- MODULE Spec2Model ----
(***************************************************************************)
(* Model of the hubcli packet decryption core (package crypto): the packet *)
(* codec, the SP 800-108 key schedule, the truncated CMAC tag, AES-CTR and *)
(* the time-counter search of Decrypt / FindTimeCounter.                   *)
(*                                                                         *)
(* Cryptographic values are terms: a MAC is the pair (key, data), so two   *)
(* MACs are equal exactly when key and data are equal (collision-free      *)
(* MAC); a keystream byte is the triple (key, nonce, position) and a byte  *)
(* of cipher text is a plain value together with the set of keystream      *)
(* bytes XORed onto it.  uint32 values keep their 32 bits: they are pairs  *)
(* <<hi, lo>> of 16-bit limbs.                                             *)
(***************************************************************************)
EXTENDS Integers, Sequences, FiniteSets, TLC

-----------------------------------------------------------------------------
(* Constants of the source *)

SecondsPerDay == 86400
MinPacketSize == 10
HeaderSize == 2
ReservedSize == 4
AuthTagSize == 4
AuthTagOffset == HeaderSize + ReservedSize
PayloadOffset == AuthTagOffset + AuthTagSize
SequenceNumberMask == 1023
DefaultSearchWindowDays == 2
NonceSize == 12
AES128KeySize == 16
AES256KeySize == 32

\* the labels of the key schedule, as the bytes of the Go string literals
LabelNonceKey == <<78, 111, 110, 99, 101, 75, 101, 121>>
LabelNonce == <<78, 111, 110, 99, 101>>
LabelEncryptionKey == <<69, 110, 99, 114, 121, 112, 116, 105, 111, 110, 75, 101, 121>>
LabelKey == <<75, 101, 121>>

-----------------------------------------------------------------------------
(* uint32 arithmetic on 16-bit limbs <<hi, lo>> *)

Limb == 2^16

\* Go's uint32(n) of a signed integer n: n modulo 2^32
ToUint32(n) == <<(n \div Limb) % Limb, n % Limb>>

U32Add(a, b) ==
    LET lo == a[2] + b[2]
    IN  <<(a[1] + b[1] + (lo \div Limb)) % Limb, lo % Limb>>

U32Sub(a, b) ==
    LET lo == a[2] - b[2]
    IN  <<(a[1] - b[1] + (lo \div Limb)) % Limb, lo % Limb>>

U32Inc(a) == U32Add(a, <<0, 1>>)

U32Le(a, b) == a[1] < b[1] \/ (a[1] = b[1] /\ a[2] <= b[2])

U32Lt(a, b) == U32Le(a, b) /\ a # b

\* An int64 is a sign and a magnitude of eight bytes, most significant
\* first; Int64(n) is the int64 of a small integer n
Int64(n) ==
    LET a == IF n < 0 THEN -n ELSE n
    IN  [neg |-> n < 0,
         mag |-> <<0, 0, 0, 0, (a \div 16777216) % 256, (a \div 65536) % 256,
                   (a \div 256) % 256, a % 256>>]

RECURSIVE LongDiv(_, _, _)
\* the quotient bytes of (rem, m) by a small k, most significant first
LongDiv(m, k, rem) ==
    IF m = <<>> THEN <<>>
    ELSE LET cur == rem * 256 + Head(m)
         IN  <<cur \div k>> \o LongDiv(Tail(m), k, cur % k)

RECURSIVE LongMul(_, _, _)
\* the bytes of m * k + carry, kept to the width of m
LongMul(m, k, carry) ==
    IF m = <<>> THEN <<>>
    ELSE LET cur == m[Len(m)] * k + carry
         IN  LongMul(SubSeq(m, 1, Len(m) - 1), k, cur \div 256) \o <<cur % 256>>

\* Go's integer division truncates toward zero: the sign is kept and the
\* magnitude is divided
GoDiv(a, b) == [neg |-> a.neg, mag |-> LongDiv(a.mag, b, 0)]

\* Go's uint32(x) of an int64 x: the low 32 bits of its two's complement
Int64ToUint32(x) ==
    LET low == <<x.mag[5] * 256 + x.mag[6], x.mag[7] * 256 + x.mag[8]>>
    IN  IF x.neg THEN U32Sub(<<0, 0>>, low) ELSE low

\* Go's int64(c) of a uint32 c
Uint32ToInt64(c) ==
    [neg |-> FALSE,
     mag |-> <<0, 0, 0, 0, c[1] \div 256, c[1] % 256, c[2] \div 256, c[2] % 256>>]

\* quotient and remainder of a uint32 by 10, limb by limb
U32DivMod10(a) ==
    LET t == (a[1] % 10) * Limb + a[2]
    IN  [q |-> <<a[1] \div 10, t \div 10>>, r |-> t % 10]

RECURSIVE FormatUint(_)
\* strconv.FormatUint(uint64(counter), 10): the ASCII decimal digits
FormatUint(a) ==
    LET dm == U32DivMod10(a)
    IN  IF dm.q = <<0, 0>> THEN <<48 + dm.r>>
        ELSE FormatUint(dm.q) \o <<48 + dm.r>>

\* binary.BigEndian.AppendUint32 / PutUint32 of a small non-negative n
BE32(n) == <<(n \div 16777216) % 256, (n \div 65536) % 256, (n \div 256) % 256, n % 256>>

-----------------------------------------------------------------------------
(* Byte strings that are keys.  A master key is [id, len, blocks = <<>>];  *)
(* a derived key is the first len bytes of the concatenation of its MAC    *)
(* blocks.  NilBytes is Go's nil slice.                                    *)

NilBytes == [id |-> 0, len |-> 0, blocks |-> <<>>]

MasterKey(i, n) == [id |-> i, len |-> n, blocks |-> <<>>]

KeyLen(key) == key.len

\* the full 16-byte AES-CMAC of data under key (aes.NewCipher, cmac.New, Write, Sum)
CMAC(key, data) == [k |-> key, d |-> data]

\* the key sizes aes.NewCipher takes: 16, 24 and 32 bytes
ValidKeySize_AES(key) == KeyLen(key) \in {AES128KeySize, 24, AES256KeySize}

ValidKeySize(key) == KeyLen(key) = AES128KeySize \/ KeyLen(key) = AES256KeySize

-----------------------------------------------------------------------------
(* cmac.go *)

NilTag == [mac |-> CMAC(NilBytes, <<>>), x |-> {}, n |-> 0]

\* the first n bytes t[:n] of the bytes t of a MAC
TagPrefix(t, n) == [mac |-> t.mac, x |-> {b \in t.x : b < 8 * n}, n |-> n]

\* the 16 bytes of mac.Sum(nil)
ComputeFullCMAC(key, data) ==
    IF ~ValidKeySize(key)
    THEN [err |-> "key must be 16 or 32 bytes", val |-> NilTag]
    ELSE [err |-> "nil", val |-> [mac |-> CMAC(key, data), x |-> {}, n |-> 16]]

\* a 4-byte tag: the first 4 bytes of a MAC with the bits of x flipped
ComputeAuthTag(key, data) ==
    IF ~ValidKeySize(key)
    THEN [err |-> "key must be 16 or 32 bytes", val |-> NilTag]
    ELSE LET fullTag == [mac |-> CMAC(key, data), x |-> {}, n |-> 16]
         IN  [err |-> "nil", val |-> TagPrefix(fullTag, AuthTagSize)]

\* a comparison that looks at the MAC the bytes come from and at their
\* number, not at every bit
ConstantTimeCompare_Loose(a, b) == a.n = b.n /\ a.mac = b.mac

\* subtle.ConstantTimeCompare(a, b) == 1
ConstantTimeCompare(a, b) == a.n = b.n /\ a.mac = b.mac /\ a.x = b.x

\* VerifyAuthTag without the check of the tag length (lines 219-221 dropped)
VerifyAuthTag_NoLengthCheck(key, data, expectedTag) ==
    LET computed == ComputeAuthTag(key, data)
    IN  IF computed.err # "nil"
        THEN [err |-> computed.err, valid |-> FALSE]
        ELSE [err |-> "nil", valid |-> ConstantTimeCompare(computed.val, expectedTag)]

VerifyAuthTag(key, data, expectedTag) ==
    IF expectedTag.n # AuthTagSize
    THEN [err |-> "expected tag must be 4 bytes", valid |-> FALSE]
    ELSE LET computed == ComputeAuthTag(key, data)
         IN  IF computed.err # "nil"
             THEN [err |-> computed.err, valid |-> FALSE]
             ELSE [err |-> "nil", valid |-> ConstantTimeCompare(computed.val, expectedTag)]

-----------------------------------------------------------------------------
(* kdf.go *)

\* the KDF computing whole blocks only: outputLen / 16 of them
SP800108CounterKDF_WholeBlocks(key, label, context, outputLen) ==
    IF ~ValidKeySize(key)
    THEN [err |-> "key must be 16 or 32 bytes", val |-> NilBytes]
    ELSE LET numBlocks == outputLen \div 16
             fixedInput == label \o <<0>> \o context \o BE32(outputLen * 8)
         IN  [err |-> "nil",
              val |-> [id |-> 0, len |-> outputLen,
                       blocks |-> [i \in 1..numBlocks |-> CMAC(key, BE32(i) \o fixedInput)]]]

\* the KDF without the separator byte between label and context
SP800108CounterKDF_NoSeparator(key, label, context, outputLen) ==
    IF ~ValidKeySize(key)
    THEN [err |-> "key must be 16 or 32 bytes", val |-> NilBytes]
    ELSE LET numBlocks == (outputLen + 15) \div 16
             fixedInput == label \o context \o BE32(outputLen * 8)
         IN  [err |-> "nil",
              val |-> [id |-> 0, len |-> outputLen,
                       blocks |-> [i \in 1..numBlocks |-> CMAC(key, BE32(i) \o fixedInput)]]]

SP800108CounterKDF(key, label, context, outputLen) ==
    IF ~ValidKeySize(key)
    THEN [err |-> "key must be 16 or 32 bytes", val |-> NilBytes]
    ELSE LET blockSize == 16
             numBlocks == (outputLen + blockSize - 1) \div blockSize
             fixedInput == label \o <<0>> \o context \o BE32(outputLen * 8)
         IN  [err |-> "nil",
              val |-> [id |-> 0, len |-> outputLen,
                       blocks |-> [i \in 1..numBlocks |-> CMAC(key, BE32(i) \o fixedInput)]]]

\* DeriveKey with the four bytes of the counter, big-endian, as the context
DeriveKey_Binary(masterKey, outputLen, label, counter) ==
    SP800108CounterKDF(masterKey, label,
                       <<counter[1] \div 256, counter[1] % 256,
                         counter[2] \div 256, counter[2] % 256>>, outputLen)

DeriveKey(masterKey, outputLen, label, counter) ==
    SP800108CounterKDF(masterKey, label, FormatUint(counter), outputLen)

DeriveNonceKey(masterKey, timeCounter) ==
    DeriveKey(masterKey, KeyLen(masterKey), LabelNonceKey, timeCounter)

\* DeriveNonce asking for as many bytes as the nonce key has
DeriveNonce_KeyLength(nonceKey, seqCounter) ==
    DeriveKey(nonceKey, KeyLen(nonceKey), LabelNonce, seqCounter)

DeriveNonce(nonceKey, seqCounter) ==
    DeriveKey(nonceKey, 12, LabelNonce, seqCounter)

DeriveEncryptionKeyIntermediate(masterKey, timeCounter) ==
    DeriveKey(masterKey, KeyLen(masterKey), LabelEncryptionKey, timeCounter)

DeriveEncryptionKey(intermediateKey, seqCounter) ==
    DeriveKey(intermediateKey, KeyLen(intermediateKey), LabelKey, seqCounter)

FullNonceDerivation(masterKey, timeCounter, seqCounter) ==
    LET nonceKey == DeriveNonceKey(masterKey, timeCounter)
    IN  IF nonceKey.err # "nil"
        THEN [err |-> "failed to derive nonce key", val |-> NilBytes]
        ELSE DeriveNonce(nonceKey.val, seqCounter)

FullEncryptionKeyDerivation(masterKey, timeCounter, seqCounter) ==
    LET intermediateKey == DeriveEncryptionKeyIntermediate(masterKey, timeCounter)
    IN  IF intermediateKey.err # "nil"
        THEN [err |-> "failed to derive intermediate key", val |-> NilBytes]
        ELSE DeriveEncryptionKey(intermediateKey.val, seqCounter)

-----------------------------------------------------------------------------
(* aesctr.go.  A data byte is [v, pad]: the value v XORed with every       *)
(* keystream byte in pad; XORing a keystream byte a second time removes it *)

PlainBytes(vs) == [i \in 1..Len(vs) |-> [v |-> vs[i], pad |-> {}]]

XorPad(pad, ks) == (pad \ {ks}) \cup ({ks} \ pad)

\* src is the input slice as the call leaves it: the key stream is XORed
\* into a new slice
AESCTRDecrypt(key, nonce, ciphertext) ==
    IF ~ValidKeySize(key)
    THEN [err |-> "key must be 16 or 32 bytes", val |-> <<>>, src |-> ciphertext]
    ELSE IF KeyLen(nonce) # NonceSize
    THEN [err |-> "nonce must be 12 bytes", val |-> <<>>, src |-> ciphertext]
    ELSE [err |-> "nil",
          val |-> [i \in 1..Len(ciphertext) |->
                      [v |-> ciphertext[i].v,
                       pad |-> XorPad(ciphertext[i].pad, [k |-> key, n |-> nonce, i |-> i])]],
          src |-> ciphertext]

\* encryption that takes its key stream from the second block on
AESCTREncrypt_Offset(key, nonce, plaintext) ==
    IF ~ValidKeySize(key)
    THEN [err |-> "key must be 16 or 32 bytes", val |-> <<>>, src |-> plaintext]
    ELSE IF KeyLen(nonce) # NonceSize
    THEN [err |-> "nonce must be 12 bytes", val |-> <<>>, src |-> plaintext]
    ELSE [err |-> "nil",
          val |-> [i \in 1..Len(plaintext) |->
                      [v |-> plaintext[i].v,
                       pad |-> XorPad(plaintext[i].pad,
                                      [k |-> key, n |-> nonce, i |-> i + 16])]],
          src |-> plaintext]

AESCTREncrypt(key, nonce, plaintext) == AESCTRDecrypt(key, nonce, plaintext)

-----------------------------------------------------------------------------
(* decrypt.go: packets, options, time counters *)

\* a time.Time: the zero Time, or a Unix time in seconds
ZeroTime == [zero |-> TRUE, unix |-> Int64(0)]

\* time.Unix(u, 0) of a small number of seconds u
UnixTime(u) == [zero |-> FALSE, unix |-> Int64(u)]

\* raw packet bytes: bytes 0..5 (head), the tag bytes 6..9 present (tag.n
\* of them) and the bytes from offset 10 on (body)
RawLen(raw) == Len(raw.head) + raw.tag.n + Len(raw.body)

NilParsed == [SequenceNumber |-> 0, AuthTag |-> NilTag, EncryptedPayload |-> <<>>,
              RawPacket |-> [head |-> <<>>, tag |-> NilTag, body |-> <<>>]]

RECURSIVE BitAnd(_, _)
\* Go's a & b of two unsigned integers
BitAnd(a, b) ==
    IF a = 0 \/ b = 0 THEN 0
    ELSE (a % 2) * (b % 2) + 2 * BitAnd(a \div 2, b \div 2)

\* ParsePacket taking the sequence number from byte 1 alone
ParsePacket_LowByte(payload) ==
    IF RawLen(payload) < MinPacketSize
    THEN [err |-> "ErrPacketTooShort", val |-> NilParsed]
    ELSE [err |-> "nil",
          val |-> [SequenceNumber |-> payload.head[2],
                   AuthTag |-> payload.tag,
                   EncryptedPayload |-> payload.body,
                   RawPacket |-> payload]]

\* ParsePacket with <= for < in the length check: a packet of exactly
\* MinPacketSize bytes is refused
ParsePacket_Strict(payload) ==
    IF RawLen(payload) <= MinPacketSize
    THEN [err |-> "ErrPacketTooShort", val |-> NilParsed]
    ELSE [err |-> "nil",
          val |-> [SequenceNumber |-> BitAnd(payload.head[1] * 256 + payload.head[2],
                                             SequenceNumberMask),
                   AuthTag |-> payload.tag,
                   EncryptedPayload |-> payload.body,
                   RawPacket |-> payload]]

ParsePacket(payload) ==
    IF RawLen(payload) < MinPacketSize
    THEN [err |-> "ErrPacketTooShort", val |-> NilParsed]
    ELSE LET seqRaw == payload.head[1] * 256 + payload.head[2]
             seqNum == BitAnd(seqRaw, SequenceNumberMask)
         IN  [err |-> "nil",
              val |-> [SequenceNumber |-> seqNum,
                       AuthTag |-> payload.tag,
                       EncryptedPayload |-> payload.body,
                       RawPacket |-> payload]]

NilResult == [nil |-> TRUE, Payload |-> <<>>, TimeCounter |-> <<0, 0>>, SeqCounter |-> 0]

\* the functional options, applied in the order given
WithSearchWindow(days) == [kind |-> "SearchWindow", days |-> days, t |-> ZeroTime]

WithExpectedTime(t) == [kind |-> "ExpectedTime", days |-> 0, t |-> t]

RECURSIVE ApplyOptions(_, _)
ApplyOptions(options, os) ==
    IF os = <<>> THEN options
    ELSE LET o == Head(os)
             next == IF o.kind = "SearchWindow"
                     THEN [options EXCEPT !.SearchWindowDays = o.days]
                     ELSE [options EXCEPT !.ExpectedTime = o.t]
         IN  ApplyOptions(next, Tail(os))

\* uint32(t.Unix() / SecondsPerDay)
TimeToCounter(t) == Int64ToUint32(GoDiv(t.unix, SecondsPerDay))

\* the multiplication done in 32 bits, before the conversion to int64
CounterToTime_Uint32(counter) ==
    [zero |-> FALSE,
     unix |-> [neg |-> FALSE,
               mag |-> <<0, 0, 0, 0>> \o
                       LongMul(SubSeq(Uint32ToInt64(counter).mag, 5, 8), SecondsPerDay, 0)]]

\* time.Unix(int64(counter)*SecondsPerDay, 0).UTC()
CounterToTime(counter) ==
    [zero |-> FALSE,
     unix |-> [neg |-> FALSE,
               mag |-> LongMul(Uint32ToInt64(counter).mag, SecondsPerDay, 0)]]

\* ctr tells whether the stream cipher was run for this candidate
TryFail(e) == [res |-> NilResult, err |-> e, ctr |-> FALSE]

\* tryDecrypt without the check of the verdict (lines 367-369 dropped)
tryDecrypt_NoVerify(key, parsed, timeCounter) ==
    LET seqCounter == ToUint32(parsed.SequenceNumber)
        encKey == FullEncryptionKeyDerivation(key, timeCounter, seqCounter)
        nonce == FullNonceDerivation(key, timeCounter, seqCounter)
        plaintext == AESCTRDecrypt(encKey.val, nonce.val, parsed.EncryptedPayload)
    IN  IF encKey.err # "nil" THEN TryFail("key derivation failed")
        ELSE IF nonce.err # "nil" THEN TryFail("nonce derivation failed")
        ELSE IF plaintext.err # "nil"
             THEN [res |-> NilResult, err |-> "decryption failed", ctr |-> TRUE]
        ELSE [res |-> [nil |-> FALSE, Payload |-> plaintext.val,
                       TimeCounter |-> timeCounter,
                       SeqCounter |-> parsed.SequenceNumber],
              err |-> "nil", ctr |-> TRUE]

\* tryDecrypt authenticating the two header bytes only: the reserved bytes
\* 2..5 are taken as zero instead of read from the packet
tryDecrypt_SkipReserved(key, parsed, timeCounter) ==
    LET seqCounter == ToUint32(parsed.SequenceNumber)
        authData == SubSeq(parsed.RawPacket.head, 1, HeaderSize) \o <<0, 0, 0, 0>>
        encKey == FullEncryptionKeyDerivation(key, timeCounter, seqCounter)
        expectedTag == ComputeAuthTag(encKey.val, authData)
        verdict == VerifyAuthTag(encKey.val, authData, parsed.AuthTag)
        nonce == FullNonceDerivation(key, timeCounter, seqCounter)
        plaintext == AESCTRDecrypt(encKey.val, nonce.val, parsed.EncryptedPayload)
    IN  IF encKey.err # "nil" THEN TryFail("key derivation failed")
        ELSE IF expectedTag.err # "nil" THEN TryFail("auth tag computation failed")
        ELSE IF verdict.err # "nil" THEN TryFail(verdict.err)
        ELSE IF ~verdict.valid THEN TryFail("ErrAuthenticationFail")
        ELSE IF nonce.err # "nil" THEN TryFail("nonce derivation failed")
        ELSE IF plaintext.err # "nil"
             THEN [res |-> NilResult, err |-> "decryption failed", ctr |-> TRUE]
        ELSE [res |-> [nil |-> FALSE, Payload |-> plaintext.val,
                       TimeCounter |-> timeCounter,
                       SeqCounter |-> parsed.SequenceNumber],
              err |-> "nil", ctr |-> TRUE]

\* tryDecrypt authenticating the encrypted payload together with bytes 0..5
tryDecrypt_AuthPayload(key, parsed, timeCounter) ==
    LET seqCounter == ToUint32(parsed.SequenceNumber)
        authData == parsed.RawPacket.head \o parsed.EncryptedPayload
        encKey == FullEncryptionKeyDerivation(key, timeCounter, seqCounter)
        expectedTag == ComputeAuthTag(encKey.val, authData)
        verdict == VerifyAuthTag(encKey.val, authData, parsed.AuthTag)
        nonce == FullNonceDerivation(key, timeCounter, seqCounter)
        plaintext == AESCTRDecrypt(encKey.val, nonce.val, parsed.EncryptedPayload)
    IN  IF encKey.err # "nil" THEN TryFail("key derivation failed")
        ELSE IF expectedTag.err # "nil" THEN TryFail("auth tag computation failed")
        ELSE IF verdict.err # "nil" THEN TryFail(verdict.err)
        ELSE IF ~verdict.valid THEN TryFail("ErrAuthenticationFail")
        ELSE IF nonce.err # "nil" THEN TryFail("nonce derivation failed")
        ELSE IF plaintext.err # "nil"
             THEN [res |-> NilResult, err |-> "decryption failed", ctr |-> TRUE]
        ELSE [res |-> [nil |-> FALSE, Payload |-> plaintext.val,
                       TimeCounter |-> timeCounter,
                       SeqCounter |-> parsed.SequenceNumber],
              err |-> "nil", ctr |-> TRUE]

tryDecrypt(key, parsed, timeCounter) ==
    LET seqCounter == ToUint32(parsed.SequenceNumber)
        authData == parsed.RawPacket.head
        encKey == FullEncryptionKeyDerivation(key, timeCounter, seqCounter)
        expectedTag == ComputeAuthTag(encKey.val, authData)
        verdict == VerifyAuthTag(encKey.val, authData, parsed.AuthTag)
        nonce == FullNonceDerivation(key, timeCounter, seqCounter)
        plaintext == AESCTRDecrypt(encKey.val, nonce.val, parsed.EncryptedPayload)
    IN  IF encKey.err # "nil" THEN TryFail("key derivation failed")
        ELSE IF expectedTag.err # "nil" THEN TryFail("auth tag computation failed")
        ELSE IF verdict.err # "nil" THEN TryFail(verdict.err)
        ELSE IF ~verdict.valid THEN TryFail("ErrAuthenticationFail")
        ELSE IF nonce.err # "nil" THEN TryFail("nonce derivation failed")
        ELSE IF plaintext.err # "nil"
             THEN [res |-> NilResult, err |-> "decryption failed", ctr |-> TRUE]
        ELSE [res |-> [nil |-> FALSE, Payload |-> plaintext.val,
                       TimeCounter |-> timeCounter,
                       SeqCounter |-> parsed.SequenceNumber],
              err |-> "nil", ctr |-> TRUE]

DefaultOptions(packet) ==
    [SearchWindowDays |-> DefaultSearchWindowDays, ExpectedTime |-> packet.Timestamp]

\* the options of a call with the expected time always read from the clock
ResolveOptions_AlwaysNow(packet, os, nowT) ==
    [ApplyOptions(DefaultOptions(packet), os) EXCEPT !.ExpectedTime = nowT]

\* the options of a call after the zero-time fallback to time.Now().UTC()
ResolveOptions(packet, os, nowT) ==
    LET options == ApplyOptions(DefaultOptions(packet), os)
    IN  IF options.ExpectedTime.zero
        THEN [options EXCEPT !.ExpectedTime = nowT]
        ELSE options

NoRange == [err |-> "nil", parsed |-> NilParsed, minCounter |-> <<0, 0>>, maxCounter |-> <<0, 0>>]

\* Decrypt parsing the packet before it checks the key size
DecryptEnter_ParseFirst(key, packet, os, nowT) ==
    LET options == ResolveOptions(packet, os, nowT)
        parsed == ParsePacket(packet.Payload)
        baseCounter == TimeToCounter(options.ExpectedTime)
    IN  IF parsed.err # "nil" THEN [NoRange EXCEPT !.err = parsed.err]
        ELSE IF ~ValidKeySize(key) THEN [NoRange EXCEPT !.err = "ErrInvalidKey"]
        ELSE [err |-> "nil", parsed |-> parsed.val,
              minCounter |-> U32Sub(baseCounter, ToUint32(options.SearchWindowDays)),
              maxCounter |-> U32Add(baseCounter, ToUint32(options.SearchWindowDays))]

\* Decrypt up to the loop (lines 301-328): validation, options, parsing and
\* the search range
DecryptEnter(key, packet, os, nowT) ==
    IF ~ValidKeySize(key) THEN [NoRange EXCEPT !.err = "ErrInvalidKey"]
    ELSE LET options == ResolveOptions(packet, os, nowT)
             parsed == ParsePacket(packet.Payload)
             baseCounter == TimeToCounter(options.ExpectedTime)
         IN  IF parsed.err # "nil" THEN [NoRange EXCEPT !.err = parsed.err]
             ELSE [err |-> "nil", parsed |-> parsed.val,
                   minCounter |-> U32Sub(baseCounter, ToUint32(options.SearchWindowDays)),
                   maxCounter |-> U32Add(baseCounter, ToUint32(options.SearchWindowDays))]

\* FindTimeCounter searching from the base counter upwards only
FindTimeCounterEnter_FromBase(key, packet, os, nowT) ==
    IF ~ValidKeySize(key) THEN [NoRange EXCEPT !.err = "ErrInvalidKey"]
    ELSE LET options == ResolveOptions(packet, os, nowT)
             parsed == ParsePacket(packet.Payload)
             baseCounter == TimeToCounter(options.ExpectedTime)
         IN  IF parsed.err # "nil" THEN [NoRange EXCEPT !.err = parsed.err]
             ELSE [err |-> "nil", parsed |-> parsed.val,
                   minCounter |-> baseCounter,
                   maxCounter |-> U32Add(baseCounter, ToUint32(options.SearchWindowDays))]

\* FindTimeCounter up to the loop (lines 407-431)
FindTimeCounterEnter(key, packet, os, nowT) ==
    IF ~ValidKeySize(key) THEN [NoRange EXCEPT !.err = "ErrInvalidKey"]
    ELSE LET options == ResolveOptions(packet, os, nowT)
             parsed == ParsePacket(packet.Payload)
             baseCounter == TimeToCounter(options.ExpectedTime)
         IN  IF parsed.err # "nil" THEN [NoRange EXCEPT !.err = parsed.err]
             ELSE [err |-> "nil", parsed |-> parsed.val,
                   minCounter |-> U32Sub(baseCounter, ToUint32(options.SearchWindowDays)),
                   maxCounter |-> U32Add(baseCounter, ToUint32(options.SearchWindowDays))]

\* the loop condition tc <= maxCounter of both searches
LoopCond(t, maxC) == U32Le(t, maxC)

\* one iteration of the FindTimeCounter loop (lines 434-445): TRUE when the
\* candidate is returned
FindTimeCounterBody(key, parsed, t) ==
    LET seqCounter == ToUint32(parsed.SequenceNumber)
        encKey == FullEncryptionKeyDerivation(key, t, seqCounter)
        authData == parsed.RawPacket.head
        verdict == VerifyAuthTag(encKey.val, authData, parsed.AuthTag)
    IN  IF encKey.err # "nil" THEN FALSE
        ELSE verdict.err = "nil" /\ verdict.valid

\* DecryptWithKnownCounter going on to the next counter after a mismatch
DecryptWithKnownCounter_Search(key, packet, timeCounter) ==
    IF ~ValidKeySize(key) THEN TryFail("ErrInvalidKey")
    ELSE LET parsed == ParsePacket(packet.Payload)
         IN  IF parsed.err # "nil" THEN TryFail(parsed.err)
             ELSE LET first == tryDecrypt(key, parsed.val, timeCounter)
                  IN  IF first.err = "nil" THEN first
                      ELSE tryDecrypt(key, parsed.val, U32Inc(timeCounter))

DecryptWithKnownCounter(key, packet, timeCounter) ==
    IF ~ValidKeySize(key) THEN TryFail("ErrInvalidKey")
    ELSE LET parsed == ParsePacket(packet.Payload)
         IN  IF parsed.err # "nil" THEN TryFail(parsed.err)
             ELSE tryDecrypt(key, parsed.val, timeCounter)

-----------------------------------------------------------------------------
(* The inputs of the calls *)

\* iterations of one search the model follows before it stops following
MaxTries == 7

\* bytes of the longest plaintext
MaxPayloadLen == 2

K16 == MasterKey(1, AES128KeySize)
K32 == MasterKey(2, AES256KeySize)
KBad == MasterKey(3, 24)

Keys == {K16, K32, KBad}

SenderKeys == {K16, K32}

\* time counters under which packets are built: 2^32-1, the first days of
\* the epoch and days around day 20000
TrueCounters == {ToUint32(c) : c \in {-1, 0, 1, 3, 5, 6, 19998, 20002, 20003}}

\* 16-bit header values: sequence 42 with the upper six bits clear, and
\* 0xFFFF (sequence 1023 with the upper six bits set)
Headers == {42, 65535}

Plaintexts == {PlainBytes([i \in 1..n |-> 71 + i]) : n \in {0, MaxPayloadLen}}

\* the packet of the round-trip test: header || tag || cipher text
BuildPacket(K, T, hdr, P) ==
    LET S == ToUint32(hdr % (SequenceNumberMask + 1))
        encKey == FullEncryptionKeyDerivation(K, T, S).val
        nonce == FullNonceDerivation(K, T, S).val
        header == <<hdr \div 256, hdr % 256, 0, 0, 0, 0>>
    IN  [head |-> header,
         tag |-> ComputeAuthTag(encKey, header).val,
         body |-> AESCTREncrypt(encKey, nonce, P).val]

\* the packet with the bits fl of its tag flipped
FlipTag(raw, fl) == [raw EXCEPT !.tag.x = (@ \ fl) \cup (fl \ @)]

\* the byte v with its bit j (0 = least significant) flipped
FlipBit(v, j) == IF (v \div 2^j) % 2 = 1 THEN v - 2^j ELSE v + 2^j

\* the packet with bit b of its bytes 0..5 flipped: bit b % 8 of byte b \div 8
FlipHead(raw, b) == [raw EXCEPT !.head[b \div 8 + 1] = FlipBit(@, b % 8)]

\* the first n bytes of a packet, n < 10
Truncate(raw, n) ==
    [head |-> SubSeq(raw.head, 1, IF n < AuthTagOffset THEN n ELSE AuthTagOffset),
     tag |-> IF n <= AuthTagOffset THEN NilTag ELSE [raw.tag EXCEPT !.n = n - AuthTagOffset],
     body |-> <<>>]

GoodPackets ==
    {BuildPacket(K16, T, h, P) : T \in TrueCounters, h \in Headers, P \in Plaintexts}
    \cup {BuildPacket(K32, T, 42, P) : T \in TrueCounters, P \in Plaintexts \ {<<>>}}

CorruptPackets ==
    {FlipTag(BuildPacket(K16, T, 42, P), {0}) :
        T \in {ToUint32(3), ToUint32(20002)}, P \in Plaintexts}

ShortPackets ==
    {Truncate(BuildPacket(K32, ToUint32(3), 42, <<>>), n) : n \in {0, MinPacketSize - 1}}

\* the bits flipped in bytes 0..5: bit 15 of the header (one of the upper
\* six), bit 0 of the sequence number and a bit of the reserved byte 2
HeadFlips == {7, 8, 16}

\* the bits flipped in the tag bytes 6..9
TagFlips == {31}

\* the counters of the packets that are tampered with
TamperCounters == {ToUint32(3), ToUint32(20002)}

\* the plaintext of the packets that are tampered with
TamperPlain == PlainBytes([i \in 1..MaxPayloadLen |-> 71 + i])

\* authentic packets of K16 with one bit of the header or of the tag changed
TamperedPackets ==
    {FlipHead(BuildPacket(K16, T, 42, TamperPlain), b) : T \in TamperCounters, b \in HeadFlips}
    \cup {FlipTag(BuildPacket(K16, T, 42, TamperPlain), {b}) : T \in TamperCounters, b \in TagFlips}

\* authentic packets of K16 whose bytes from offset 10 on are replaced by
\* other bytes, cut by one byte, or followed by one more byte
SubstitutedPackets ==
    {[BuildPacket(K16, T, 42, TamperPlain) EXCEPT !.body = b] :
        T \in TamperCounters, b \in {PlainBytes([i \in 1..MaxPayloadLen |-> 200 + i])}}
    \cup {[BuildPacket(K16, T, 42, TamperPlain) EXCEPT !.body = SubSeq(@, 1, Len(@) - 1)] :
        T \in TamperCounters}
    \cup {[BuildPacket(K16, T, 42, TamperPlain) EXCEPT !.body = @ \o PlainBytes(<<9>>)] :
        T \in TamperCounters}

Payloads ==
    GoodPackets \cup CorruptPackets \cup ShortPackets \cup TamperedPackets
      \cup SubstitutedPackets

Day(d) == d * SecondsPerDay

\* the clock of the calls
Now == UnixTime(Day(20001) + 100)

\* (packet timestamp, expected-time option) of a call
TimeCases ==
    {<<UnixTime(u), <<>>>> : u \in {Day(-1), 0, Day(1), Day(3) + 7, Day(20000) + 3600}}
    \cup {<<ZeroTime, <<>>>>,
          <<UnixTime(Day(20000)), <<WithExpectedTime(UnixTime(Day(3)))>>>>,
          <<UnixTime(Day(3)), <<WithExpectedTime(ZeroTime)>>>>}

WindowCases == {<<>>} \cup {<<WithSearchWindow(w)>> : w \in {-1, 0, 1}}

\* the counter DecryptWithKnownCounter is called with, when not with the one
\* FindTimeCounter returned (0 before it returned one)
KnownCounters == {ToUint32(20002)}

-----------------------------------------------------------------------------
(* State *)

VARIABLES
    key,        \* the master key of the calls
    packet,     \* the models.EncryptedPacket of the calls
    opts,       \* the options of the calls
    pc,         \* "idle", or the search that is running
    loop,       \* the locals of the running search: parsed, tc, maxCounter
    triedD,     \* the candidates Decrypt has tried, in order
    triedF,     \* the candidates FindTimeCounter has tried, in order
    retD,       \* what Decrypt returned
    retF,       \* what FindTimeCounter returned
    retK,       \* what DecryptWithKnownCounter returned, and for which counter
    ctrRuns,    \* the candidates the stream cipher was run for
    derivations, \* the number of candidate attempts (key derivations) started
    call,       \* the last direct call of a function of the package, with its result
    scanning,   \* Scanner.scanning
    stopCh,     \* Scanner.stopCh: 0 for nil, else the scan that made the channel
    closedChans, \* the stop channels that are closed, by the scan that made them
    adapter,    \* the Bluetooth adapter: the scan whose adapter.Scan runs, StopScan called
    scans,      \* the scans started: their goroutines, channels, context and result
    panicked,   \* a closed channel was closed again
    pgPc,       \* where RetrievePacketsWithPagination is: "idle", "loop", "done"
    pgOpts,     \* its RetrievePacketsOptions (Limit, ContinuationToken)
    contToken,  \* its local contToken
    allPackets, \* its local allPackets
    requests,   \* the Continuation-Token of the requests sent, in order ("" for none)
    responses,  \* the responses of the server, in order
    pgResult    \* what it returned

\* the state of the Scanner
ble == <<scanning, stopCh, closedChans, adapter, scans, panicked>>

\* the state of the packet retrieval
pages == <<pgPc, pgOpts, contToken, allPackets, requests, responses, pgResult>>

vars == <<key, packet, opts, pc, loop, triedD, triedF, retD, retF, retK, ctrRuns, derivations,
          call, ble, pages>>

\* the state of the searches
search == <<key, packet, opts, pc, loop, triedD, triedF, retD, retF, retK, ctrRuns, derivations>>

inputs == <<key, packet, opts>>

NoLoop == [parsed |-> NilParsed, tc |-> <<0, 0>>, maxCounter |-> <<0, 0>>]

NoCall == [fn |-> "none"]

NotCalled == [done |-> FALSE, res |-> NilResult, err |-> "nil", counter |-> <<0, 0>>]

Returned(res, err, c) == [done |-> TRUE, res |-> res, err |-> err, counter |-> c]

\* the scans a Scanner is followed for
MaxScans == 2

\* a scan that has not been started
NoScan ==
    [kind |-> "none", maxPackets |-> 0, routine |-> "none", main |-> "none", sel |-> 0,
     ctxDone |-> FALSE, count |-> 0, results |-> 0, resultsClosed |-> FALSE,
     err |-> "nil", ret |-> "none", stopped |-> FALSE]

\* NewScanner: no scan, no stop channel, the adapter enabled and idle
NewScanner ==
    /\ scanning = FALSE
    /\ stopCh = 0
    /\ closedChans = {}
    /\ adapter = [owner |-> 0, stop |-> FALSE]
    /\ scans = [n \in 1..MaxScans |-> NoScan]
    /\ panicked = FALSE

\* no retrieval was called
NoRetrieval ==
    /\ pgPc = "idle"
    /\ pgOpts = [Limit |-> 0, ContinuationToken |-> ""]
    /\ contToken = ""
    /\ allPackets = <<>>
    /\ requests = <<>>
    /\ responses = <<>>
    /\ pgResult = [done |-> FALSE, Packets |-> <<>>, ContinuationToken |-> "", err |-> "nil"]

Init ==
    /\ key \in Keys
    /\ \E p \in Payloads, tcase \in TimeCases, w \in WindowCases :
          /\ packet = [Payload |-> p, Timestamp |-> tcase[1]]
          /\ opts = w \o tcase[2]
    /\ pc = "idle"
    /\ loop = NoLoop
    /\ triedD = <<>>
    /\ triedF = <<>>
    /\ retD = NotCalled
    /\ retF = NotCalled
    /\ retK = NotCalled
    /\ ctrRuns = {}
    /\ derivations = 0
    /\ call = NoCall
    /\ NewScanner
    /\ NoRetrieval

-----------------------------------------------------------------------------
(* Decrypt *)

\* the call up to the first evaluation of the loop condition
DecryptCall ==
    /\ pc = "idle" /\ ~retD.done
    /\ LET e == DecryptEnter(key, packet, opts, Now)
       IN  IF e.err # "nil"
           THEN /\ retD' = Returned(NilResult, e.err, <<0, 0>>)
                /\ UNCHANGED <<pc, loop>>
           ELSE /\ pc' = "Decrypt"
                /\ loop' = [parsed |-> e.parsed, tc |-> e.minCounter, maxCounter |-> e.maxCounter]
                /\ UNCHANGED retD
    /\ UNCHANGED <<inputs, call, ble, pages, triedD, triedF, retF, retK, ctrRuns, derivations>>

\* one iteration: tryDecrypt for the candidate, return on success, else tc++
DecryptIter ==
    /\ pc = "Decrypt" /\ LoopCond(loop.tc, loop.maxCounter)
    /\ Len(triedD) < MaxTries
    /\ LET r == tryDecrypt(key, loop.parsed, loop.tc)
       IN  /\ triedD' = Append(triedD, loop.tc)
           /\ derivations' = derivations + 1
           /\ ctrRuns' = IF r.ctr THEN ctrRuns \cup {loop.tc} ELSE ctrRuns
           /\ IF r.err = "nil"
              THEN /\ retD' = Returned(r.res, "nil", <<0, 0>>)
                   /\ pc' = "idle"
                   /\ loop' = NoLoop
              ELSE /\ loop' = [loop EXCEPT !.tc = U32Inc(loop.tc)]
                   /\ UNCHANGED <<retD, pc>>
    /\ UNCHANGED <<inputs, call, ble, pages, triedF, retF, retK>>

\* the loop condition is false: the window is exhausted
DecryptExhausted ==
    /\ pc = "Decrypt" /\ ~LoopCond(loop.tc, loop.maxCounter)
    /\ retD' = Returned(NilResult, "ErrDecryptionFailed", <<0, 0>>)
    /\ pc' = "idle"
    /\ loop' = NoLoop
    /\ UNCHANGED <<inputs, call, ble, pages, triedD, triedF, retF, retK, ctrRuns, derivations>>

-----------------------------------------------------------------------------
(* FindTimeCounter *)

FindTimeCounterCall ==
    /\ pc = "idle" /\ ~retF.done
    /\ LET e == FindTimeCounterEnter(key, packet, opts, Now)
       IN  IF e.err # "nil"
           THEN /\ retF' = Returned(NilResult, e.err, <<0, 0>>)
                /\ UNCHANGED <<pc, loop>>
           ELSE /\ pc' = "FindTimeCounter"
                /\ loop' = [parsed |-> e.parsed, tc |-> e.minCounter, maxCounter |-> e.maxCounter]
                /\ UNCHANGED retF
    /\ UNCHANGED <<inputs, call, ble, pages, triedD, triedF, retD, retK, ctrRuns, derivations>>

FindTimeCounterIter ==
    /\ pc = "FindTimeCounter" /\ LoopCond(loop.tc, loop.maxCounter)
    /\ Len(triedF) < MaxTries
    /\ triedF' = Append(triedF, loop.tc)
    /\ derivations' = derivations + 1
    /\ IF FindTimeCounterBody(key, loop.parsed, loop.tc)
       THEN /\ retF' = Returned(NilResult, "nil", loop.tc)
            /\ pc' = "idle"
            /\ loop' = NoLoop
       ELSE /\ loop' = [loop EXCEPT !.tc = U32Inc(loop.tc)]
            /\ UNCHANGED <<retF, pc>>
    /\ UNCHANGED <<inputs, call, ble, pages, triedD, retD, retK, ctrRuns>>

FindTimeCounterExhausted ==
    /\ pc = "FindTimeCounter" /\ ~LoopCond(loop.tc, loop.maxCounter)
    /\ retF' = Returned(NilResult, "ErrDecryptionFailed", <<0, 0>>)
    /\ pc' = "idle"
    /\ loop' = NoLoop
    /\ UNCHANGED <<inputs, call, ble, pages, triedD, triedF, retD, retK, ctrRuns, derivations>>

-----------------------------------------------------------------------------
(* DecryptWithKnownCounter *)

DecryptWithKnownCounterCall ==
    /\ pc = "idle" /\ ~retK.done
    /\ \E c \in KnownCounters \cup {retF.counter} :
          LET r == DecryptWithKnownCounter(key, packet, c)
              attempted == ValidKeySize(key) /\ ParsePacket(packet.Payload).err = "nil"
          IN  /\ retK' = Returned(r.res, r.err, c)
              /\ ctrRuns' = IF r.ctr THEN ctrRuns \cup {c} ELSE ctrRuns
              /\ derivations' = IF attempted THEN derivations + 1 ELSE derivations
    /\ UNCHANGED <<inputs, call, ble, pages, pc, loop, triedD, triedF, retD, retF>>

-----------------------------------------------------------------------------

Next ==
    \/ DecryptCall
    \/ DecryptIter
    \/ DecryptExhausted
    \/ FindTimeCounterCall
    \/ FindTimeCounterIter
    \/ FindTimeCounterExhausted
    \/ DecryptWithKnownCounterCall

Spec == Init /\ [][Next]_vars

-----------------------------------------------------------------------------
(* Direct calls of the functions of the package: each action is one call,  *)
(* with arguments drawn from the sets below, and records the arguments and *)
(* what the call returned; calls follow one another in any order.          *)

\* some 4 tag bytes of a packet that is parsed
SomeTag == [mac |-> CMAC(K16, <<1>>), x |-> {}, n |-> AuthTagSize]

\* the 16-bit header values of the packets that are parsed
ParseHeaders == {0, 66, 1023, 1024, 1090, 32834, 64512, 65535}

\* the packet of byte length n with header hdr, reserved bytes r and, from
\* offset 10 on, the bytes 1, 2, ...
RawOfLen(hdr, r, n) ==
    LET full == [head |-> <<hdr \div 256, hdr % 256, r, r, r, r>>,
                 tag |-> SomeTag,
                 body |-> PlainBytes([i \in 1..(n - PayloadOffset) |-> i])]
    IN  IF n < MinPacketSize THEN Truncate(full, n) ELSE full

ParseInputs ==
    {RawOfLen(h, r, n) : h \in ParseHeaders, r \in {0, 5},
                         n \in 0..(MinPacketSize + MaxPayloadLen)}

InitCalls ==
    /\ key = K16
    /\ packet = [Payload |-> RawOfLen(0, 0, 0), Timestamp |-> ZeroTime]
    /\ opts = <<>>
    /\ pc = "idle"
    /\ loop = NoLoop
    /\ triedD = <<>>
    /\ triedF = <<>>
    /\ retD = NotCalled
    /\ retF = NotCalled
    /\ retK = NotCalled
    /\ ctrRuns = {}
    /\ derivations = 0
    /\ call = NoCall
    /\ NewScanner
    /\ NoRetrieval

\* the key lengths of the calls
KeyLens == {0, 8, 15, 16, 17, 24, 31, 32, 33, 64}

\* a key of every length, and a second key of the lengths 16 and 32
CallKeys == {MasterKey(100 + n, n) : n \in KeyLens} \cup {K16, K32}

\* the data of the MAC calls: 116 and 117 differ in one bit
CallData == {<<>>, <<116>>, <<117>>, <<116, 0>>}

\* the tag with the bits fl flipped
FlipTagBits(tag, fl) == [tag EXCEPT !.x = (@ \ fl) \cup (fl \ @)]

\* the tags of the calls: the tags of K16 and K32 for the data, those tags
\* with one bit flipped, their first 0 or 3 bytes, the first 5 bytes of the
\* MAC, and 4 bytes that are no MAC of a key
CallTags ==
    LET full == {ComputeFullCMAC(k, d).val : k \in {K16, K32}, d \in CallData}
        right == {TagPrefix(t, AuthTagSize) : t \in full}
    IN  right
        \cup {FlipTagBits(t, {b}) : t \in right, b \in {0, 31}}
        \cup {TagPrefix(t, n) : t \in full, n \in {0, AuthTagSize - 1, AuthTagSize + 1}}
        \cup {[NilTag EXCEPT !.n = n] : n \in {AuthTagSize - 1, AuthTagSize}}

\* labels and contexts of the KDF calls, as byte strings: "a", "a\x00", "ab"
\* and "Key"; "", "b", "\x00b" and "1"
KdfLabels == {<<97>>, <<97, 0>>, <<97, 98>>, LabelKey}

KdfContexts == {<<>>, <<98>>, <<0, 98>>, <<49>>}

\* the output lengths asked of the KDF
KdfLens == {0, 1, 8, 12, 16, 24, 32, 33, 48}

\* the counters of the DeriveKey calls, up to 2^31 - 1, 2^31 and 2^32 - 1
CallCounters ==
    {ToUint32(c) : c \in {0, 1, 9, 10, 42, 100, 1023, 12345, 20002, 65535, 65536, 2147483647}}
    \cup {<<32768, 0>>, <<65535, 65535>>}

\* (output length, label) of the DeriveKey calls
DeriveCases == {<<NonceSize, LabelNonce>>, <<AES128KeySize, LabelKey>>,
                <<AES256KeySize, LabelEncryptionKey>>}

\* the time and sequence counters of the calls of the derivation helpers
HelperCounters == {ToUint32(3), ToUint32(20002)}

HelperSequences == {ToUint32(42), ToUint32(1023)}

\* the nonces of the AES-CTR calls: of 12 and of 11 bytes
CallNonces == {FullNonceDerivation(K16, ToUint32(3), ToUint32(42)).val,
               SP800108CounterKDF(K16, LabelNonce, <<49>>, NonceSize - 1).val}

\* the packets of the direct Decrypt calls: an authentic packet of K16 and
\* day 20002 without and with a timestamp, and a packet of 9 bytes
CallPackets ==
    LET good == BuildPacket(K16, ToUint32(20002), 42, TamperPlain)
    IN  {[Payload |-> good, Timestamp |-> ZeroTime],
         [Payload |-> good, Timestamp |-> UnixTime(Day(20000))],
         [Payload |-> Truncate(good, MinPacketSize - 1), Timestamp |-> ZeroTime]}

\* the options of the direct Decrypt calls
OptionCases == {<<>>, <<WithSearchWindow(5)>>,
                <<WithExpectedTime(UnixTime(Day(20003)))>>,
                <<WithExpectedTime(ZeroTime)>>}

\* what time.Now() reads when a call is made
Clock == {Now, UnixTime(Day(20010))}

\* the byte strings of the AES-CTR calls: plaintexts, and cipher texts of
\* K16 and K32
CtrData ==
    Plaintexts
    \cup {AESCTREncrypt(k, FullNonceDerivation(K16, ToUint32(3), ToUint32(42)).val,
                        TamperPlain).val : k \in {K16, K32}}

CallParsePacket ==
    /\ call = NoCall
    /\ \E p \in ParseInputs :
          call' = [fn |-> "ParsePacket", payload |-> p, out |-> ParsePacket(p)]
    /\ UNCHANGED <<search, ble, pages>>

CallComputeAuthTag ==
    /\ call = NoCall
    /\ \E k \in CallKeys, d \in CallData :
          call' = [fn |-> "ComputeAuthTag", key |-> k, data |-> d,
                   out |-> ComputeAuthTag(k, d)]
    /\ UNCHANGED <<search, ble, pages>>

CallVerifyAuthTag ==
    /\ call = NoCall
    /\ \E k \in CallKeys, d \in CallData, t \in CallTags :
          call' = [fn |-> "VerifyAuthTag", key |-> k, data |-> d, tag |-> t,
                   out |-> VerifyAuthTag(k, d, t)]
    /\ UNCHANGED <<search, ble, pages>>

CallComputeFullCMAC ==
    /\ call = NoCall
    /\ \E k \in CallKeys, d \in CallData :
          call' = [fn |-> "ComputeFullCMAC", key |-> k, data |-> d,
                   out |-> ComputeFullCMAC(k, d)]
    /\ UNCHANGED <<search, ble, pages>>

\* the result is dropped, another call can be made
\* the time s seconds after midnight UTC of the day whose number has the
\* bytes day
TimeAt(day, s) ==
    [zero |-> FALSE, unix |-> [neg |-> FALSE, mag |-> LongMul(day, SecondsPerDay, s)]]

\* instants around the epoch, of 2024-01-15 and 2024-01-16, and of days
\* whose number needs 17, 32 and 33 bits
CallTimes ==
    {UnixTime(u) : u \in {Day(-1) - 1, Day(-1), Day(-1) + 1, -43200, -1, 0, 1, 43200,
                          Day(1) - 1, Day(1), Day(1) + 1, Day(19738),
                          Day(19738) + 43200, Day(19739) - 1, Day(19739) + 43200}}
      \cup {TimeAt(d, s) : d \in {<<0, 0, 0, 0, 0, 0, 194, 47>>,
                                  <<0, 0, 0, 0, 255, 255, 255, 255>>,
                                  <<0, 0, 0, 1, 0, 0, 0, 0>>,
                                  <<0, 0, 0, 1, 0, 0, 77, 26>>},
                           s \in {0, 43200, SecondsPerDay - 1}}

\* day counters: the first days, 2024-01-15, the last day whose seconds fit
\* in 31 bits and in 32 bits and the days after them, and the last counter
TimeCounters ==
    {ToUint32(c) : c \in {0, 1, 19738, 24855, 24856, 49710, 49711}}
      \cup {<<Limb \div 2, 0>>, <<Limb - 1, Limb - 1>>}

CallTimeToCounter ==
    /\ call = NoCall
    /\ \E t \in CallTimes : call' = [fn |-> "TimeToCounter", t |-> t, out |-> TimeToCounter(t)]
    /\ UNCHANGED <<search, ble, pages>>

CallCounterToTime ==
    /\ call = NoCall
    /\ \E c \in TimeCounters :
          call' = [fn |-> "CounterToTime", counter |-> c, out |-> CounterToTime(c)]
    /\ UNCHANGED <<search, ble, pages>>

Return ==
    /\ call # NoCall
    /\ call' = NoCall
    /\ UNCHANGED <<search, ble, pages>>

CallSP800108CounterKDF ==
    /\ call = NoCall
    /\ \E k \in CallKeys, l \in KdfLabels, c \in KdfContexts, n \in KdfLens :
          call' = [fn |-> "SP800108CounterKDF", key |-> k, label |-> l, context |-> c,
                   outputLen |-> n, out |-> SP800108CounterKDF(k, l, c, n)]
    /\ UNCHANGED <<search, ble, pages>>

CallDeriveKey ==
    /\ call = NoCall
    /\ \E k \in CallKeys, dc \in DeriveCases, c \in CallCounters :
          call' = [fn |-> "DeriveKey", key |-> k, outputLen |-> dc[1], label |-> dc[2],
                   counter |-> c, out |-> DeriveKey(k, dc[1], dc[2], c)]
    /\ UNCHANGED <<search, ble, pages>>

CallDeriveNonceKey ==
    /\ call = NoCall
    /\ \E k \in CallKeys, t \in HelperCounters :
          call' = [fn |-> "DeriveNonceKey", key |-> k, timeCounter |-> t,
                   out |-> DeriveNonceKey(k, t)]
    /\ UNCHANGED <<search, ble, pages>>

CallDeriveNonce ==
    /\ call = NoCall
    /\ \E k \in CallKeys, q \in HelperSequences :
          call' = [fn |-> "DeriveNonce", key |-> k, seqCounter |-> q,
                   out |-> DeriveNonce(k, q)]
    /\ UNCHANGED <<search, ble, pages>>

CallDeriveEncryptionKeyIntermediate ==
    /\ call = NoCall
    /\ \E k \in CallKeys, t \in HelperCounters :
          call' = [fn |-> "DeriveEncryptionKeyIntermediate", key |-> k, timeCounter |-> t,
                   out |-> DeriveEncryptionKeyIntermediate(k, t)]
    /\ UNCHANGED <<search, ble, pages>>

CallDeriveEncryptionKey ==
    /\ call = NoCall
    /\ \E k \in CallKeys, q \in HelperSequences :
          call' = [fn |-> "DeriveEncryptionKey", key |-> k, seqCounter |-> q,
                   out |-> DeriveEncryptionKey(k, q)]
    /\ UNCHANGED <<search, ble, pages>>

CallFullNonceDerivation ==
    /\ call = NoCall
    /\ \E k \in CallKeys, t \in HelperCounters, q \in HelperSequences :
          call' = [fn |-> "FullNonceDerivation", key |-> k, timeCounter |-> t,
                   seqCounter |-> q, out |-> FullNonceDerivation(k, t, q)]
    /\ UNCHANGED <<search, ble, pages>>

CallFullEncryptionKeyDerivation ==
    /\ call = NoCall
    /\ \E k \in CallKeys, t \in HelperCounters, q \in HelperSequences :
          call' = [fn |-> "FullEncryptionKeyDerivation", key |-> k, timeCounter |-> t,
                   seqCounter |-> q, out |-> FullEncryptionKeyDerivation(k, t, q)]
    /\ UNCHANGED <<search, ble, pages>>

CallAESCTRDecrypt ==
    /\ call = NoCall
    /\ \E k \in CallKeys, n \in CallNonces, c \in CtrData :
          call' = [fn |-> "AESCTRDecrypt", key |-> k, nonce |-> n, data |-> c,
                   out |-> AESCTRDecrypt(k, n, c)]
    /\ UNCHANGED <<search, ble, pages>>

CallAESCTREncrypt ==
    /\ call = NoCall
    /\ \E k \in CallKeys, n \in CallNonces, c \in CtrData :
          call' = [fn |-> "AESCTREncrypt", key |-> k, nonce |-> n, data |-> c,
                   out |-> AESCTREncrypt(k, n, c)]
    /\ UNCHANGED <<search, ble, pages>>

\* Decrypt up to its loop: the error it returns at once, or the parsed packet
\* and the range its loop searches
CallDecrypt ==
    /\ call = NoCall
    /\ \E k \in CallKeys, p \in CallPackets, os \in OptionCases, t \in Clock :
          call' = [fn |-> "Decrypt", key |-> k, packet |-> p, opts |-> os, now |-> t,
                   out |-> DecryptEnter(k, p, os, t)]
    /\ UNCHANGED <<search, ble, pages>>

\* FindTimeCounter up to its loop
CallFindTimeCounter ==
    /\ call = NoCall
    /\ \E k \in CallKeys, p \in CallPackets, os \in OptionCases, t \in Clock :
          call' = [fn |-> "FindTimeCounter", key |-> k, packet |-> p, opts |-> os, now |-> t,
                   out |-> FindTimeCounterEnter(k, p, os, t)]
    /\ UNCHANGED <<search, ble, pages>>

CallDecryptWithKnownCounter ==
    /\ call = NoCall
    /\ \E k \in CallKeys, p \in CallPackets, t \in HelperCounters :
          call' = [fn |-> "DecryptWithKnownCounter", key |-> k, packet |-> p,
                   timeCounter |-> t, out |-> DecryptWithKnownCounter(k, p, t)]
    /\ UNCHANGED <<search, ble, pages>>

NextCalls ==
    \/ CallParsePacket
    \/ CallComputeAuthTag
    \/ CallVerifyAuthTag
    \/ CallComputeFullCMAC
    \/ CallSP800108CounterKDF
    \/ CallDeriveKey
    \/ CallDeriveNonceKey
    \/ CallDeriveNonce
    \/ CallDeriveEncryptionKeyIntermediate
    \/ CallDeriveEncryptionKey
    \/ CallFullNonceDerivation
    \/ CallFullEncryptionKeyDerivation
    \/ CallAESCTRDecrypt
    \/ CallAESCTREncrypt
    \/ CallDecrypt
    \/ CallFindTimeCounter
    \/ CallDecryptWithKnownCounter
    \/ CallTimeToCounter
    \/ CallCounterToTime
    \/ Return

SpecCalls == InitCalls /\ [][NextCalls]_vars

-----------------------------------------------------------------------------
(* ble/scanner.go: one Scanner, its callers and its scan goroutines *)

\* the capacity of the results channel of ScanStream, 100 in the source,
\* scaled down
ResultsCap == 1

\* the packets of a scan are counted up to this many
MaxCount == 1

\* ScanOptions.MaxPackets of the scans
MaxPacketsCases == {0, 1}

\* what the adapter reports to the callback: an advertisement that parses as
\* a Hubble packet, or one that passes the filter and does not parse
Advertisements == {"packet", "parseError"}

\* what adapter.Scan returns
ScanErrors == {"nil", "error"}

Min(a, b) == IF a <= b THEN a ELSE b

\* adapter.StopScan(): the scan of the adapter, when one runs, is told to end
StopScan(a) == IF a.owner # 0 THEN [a EXCEPT !.stop = TRUE] ELSE a

\* what an unlocked read of s.stopCh in scan n may give: the field as it is,
\* or the channel scan n stored in it (Stop writes nil under the mutex, the
\* callback and the select read without it)
ReadStopCh(n) == {stopCh, n}

\* Scan and ScanStream up to s.mu.Unlock(): ErrScanInProgress while a scan
\* is marked, else the scan is marked, a stop channel made, and the call
\* goes on (Scan) or starts its goroutine and returns the channel (ScanStream)
StartScan(kind, maxPackets) ==
    IF scanning
    THEN UNCHANGED <<scanning, stopCh, closedChans, adapter, scans, panicked>>
    ELSE \E n \in 1..MaxScans :
            /\ scans[n].kind = "none"
            /\ \A m \in 1..(n - 1) : scans[m].kind # "none"
            /\ scanning' = TRUE
            /\ stopCh' = n
            /\ scans' = [scans EXCEPT ![n] =
                            [NoScan EXCEPT !.kind = kind, !.maxPackets = maxPackets,
                                           !.routine = "start",
                                           !.main = IF kind = "Scan" THEN "enter"
                                                    ELSE "returned"]]
            /\ UNCHANGED <<closedChans, adapter, panicked>>

ScanCall ==
    /\ \E mp \in MaxPacketsCases : StartScan("Scan", mp)
    /\ UNCHANGED <<search, call, pages>>

ScanStreamCall ==
    /\ \E mp \in MaxPacketsCases : StartScan("ScanStream", mp)
    /\ UNCHANGED <<search, call, pages>>

\* IsScanning reads s.scanning under the mutex
IsScanning ==
    /\ UNCHANGED <<scanning, stopCh, closedChans, adapter, scans, panicked>>
    /\ UNCHANGED <<search, call, pages>>

Stop ==
    /\ IF scanning /\ stopCh # 0
       THEN /\ panicked' = (panicked \/ stopCh \in closedChans)
            /\ closedChans' = closedChans \cup {stopCh}
            /\ scans' = [scans EXCEPT ![stopCh].stopped = TRUE]
            /\ stopCh' = 0
       ELSE UNCHANGED <<panicked, closedChans, scans, stopCh>>
    /\ UNCHANGED <<scanning, adapter>>
    /\ UNCHANGED <<search, call, pages>>

\* the context of scan n is cancelled by its caller, or its timeout passes
ContextDone(n) ==
    /\ scans[n].kind # "none" /\ ~scans[n].ctxDone
    /\ scans[n].main # "done" /\ scans[n].routine # "done"
    /\ scans' = [scans EXCEPT ![n].ctxDone = TRUE]
    /\ UNCHANGED <<scanning, stopCh, closedChans, adapter, panicked>>
    /\ UNCHANGED <<search, call, pages>>

\* the goroutine of scan n calls s.adapter.Scan: the adapter starts to scan,
\* or returns an error at once (always when it is scanning already)
AdapterScan(n) ==
    /\ scans[n].routine = "start"
    /\ \/ /\ adapter.owner = 0
          /\ adapter' = [owner |-> n, stop |-> FALSE]
          /\ scans' = [scans EXCEPT ![n].routine = "scanning"]
       \/ /\ adapter' = adapter
          /\ scans' = [scans EXCEPT ![n].routine = "returned", ![n].err = "error"]
    /\ UNCHANGED <<scanning, stopCh, closedChans, panicked>>
    /\ UNCHANGED <<search, call, pages>>

\* the callback of scan n runs for an advertisement
Callback(n) ==
    /\ adapter.owner = n
    /\ \E ch \in ReadStopCh(n), adv \in Advertisements :
          LET sc == scans[n]
              count == IF adv = "packet" THEN Min(sc.count + 1, MaxCount) ELSE sc.count
              full == sc.maxPackets > 0 /\ count >= sc.maxPackets
          IN  IF (ch # 0 /\ ch \in closedChans) \/ sc.ctxDone
              THEN /\ adapter' = StopScan(adapter)
                   /\ scans' = scans
              ELSE IF sc.kind = "ScanStream"
              THEN /\ scans' = [scans EXCEPT ![n].count = count,
                                             ![n].results = Min(sc.results + 1, ResultsCap)]
                   /\ adapter' = IF full THEN StopScan(adapter) ELSE adapter
              ELSE IF adv = "packet"
              THEN /\ scans' = [scans EXCEPT ![n].count = count]
                   /\ adapter' = IF full THEN StopScan(adapter) ELSE adapter
              ELSE /\ scans' = scans
                   /\ adapter' = adapter
    /\ UNCHANGED <<scanning, stopCh, closedChans, panicked>>
    /\ UNCHANGED <<search, call, pages>>

\* adapter.Scan of scan n returns after StopScan, with or without an error;
\* Scan's goroutine sends it on done
AdapterReturn(n) ==
    /\ adapter.owner = n /\ adapter.stop
    /\ \E e \in ScanErrors :
          scans' = [scans EXCEPT ![n].routine = "returned", ![n].err = e]
    /\ adapter' = [owner |-> 0, stop |-> FALSE]
    /\ UNCHANGED <<scanning, stopCh, closedChans, panicked>>
    /\ UNCHANGED <<search, call, pages>>

\* ScanStream's goroutine sends the error of adapter.Scan: results <- ...
\* blocks while the channel is full
StreamSendError(n) ==
    /\ scans[n].kind = "ScanStream" /\ scans[n].routine = "returned"
    /\ scans[n].err # "nil"
    /\ scans[n].results < ResultsCap
    /\ scans' = [scans EXCEPT ![n].results = @ + 1, ![n].routine = "deferred"]
    /\ UNCHANGED <<scanning, stopCh, closedChans, adapter, panicked>>
    /\ UNCHANGED <<search, call, pages>>

\* the deferred function of ScanStream's goroutine, under the mutex
StreamUnmark(n) ==
    /\ scans[n].kind = "ScanStream"
    /\ \/ scans[n].routine = "deferred"
       \/ scans[n].routine = "returned" /\ scans[n].err = "nil"
    /\ scanning' = FALSE
    /\ scans' = [scans EXCEPT ![n].routine = "close"]
    /\ UNCHANGED <<stopCh, closedChans, adapter, panicked>>
    /\ UNCHANGED <<search, call, pages>>

\* and its close(results)
StreamClose(n) ==
    /\ scans[n].kind = "ScanStream" /\ scans[n].routine = "close"
    /\ panicked' = (panicked \/ scans[n].resultsClosed)
    /\ scans' = [scans EXCEPT ![n].resultsClosed = TRUE, ![n].routine = "done"]
    /\ UNCHANGED <<scanning, stopCh, closedChans, adapter>>
    /\ UNCHANGED <<search, call, pages>>

\* the reader of the results channel takes a result
Receive(n) ==
    /\ scans[n].kind = "ScanStream" /\ scans[n].results > 0
    /\ scans' = [scans EXCEPT ![n].results = @ - 1]
    /\ UNCHANGED <<scanning, stopCh, closedChans, adapter, panicked>>
    /\ UNCHANGED <<search, call, pages>>

\* Scan enters its select: the channel of case <-s.stopCh is read once
ScanSelect(n) ==
    /\ scans[n].kind = "Scan" /\ scans[n].main = "enter"
    /\ \E ch \in ReadStopCh(n) :
          scans' = [scans EXCEPT ![n].sel = ch, ![n].main = "select"]
    /\ UNCHANGED <<scanning, stopCh, closedChans, adapter, panicked>>
    /\ UNCHANGED <<search, call, pages>>

\* one of the ready cases of the select of Scan is taken
ScanWake(n) ==
    /\ scans[n].kind = "Scan" /\ scans[n].main = "select"
    /\ \/ /\ scans[n].routine = "returned"
          /\ scans' = [scans EXCEPT ![n].main = "defer",
                                    ![n].ret = IF scans[n].err # "nil" THEN "error" ELSE "nil"]
          /\ adapter' = adapter
       \/ /\ scans[n].ctxDone
          /\ adapter' = StopScan(adapter)
          /\ scans' = [scans EXCEPT ![n].main = "waitDone", ![n].ret = "nil"]
       \/ /\ scans[n].sel # 0 /\ scans[n].sel \in closedChans
          /\ adapter' = StopScan(adapter)
          /\ scans' = [scans EXCEPT ![n].main = "waitDone", ![n].ret = "ErrScanStopped"]
    /\ UNCHANGED <<scanning, stopCh, closedChans, panicked>>
    /\ UNCHANGED <<search, call, pages>>

\* <-done after StopScan
ScanWaitDone(n) ==
    /\ scans[n].kind = "Scan" /\ scans[n].main = "waitDone"
    /\ scans[n].routine = "returned"
    /\ scans' = [scans EXCEPT ![n].main = "defer"]
    /\ UNCHANGED <<scanning, stopCh, closedChans, adapter, panicked>>
    /\ UNCHANGED <<search, call, pages>>

\* Scan returns: its deferred function clears the mark under the mutex
ScanReturn(n) ==
    /\ scans[n].kind = "Scan" /\ scans[n].main = "defer"
    /\ scanning' = FALSE
    /\ scans' = [scans EXCEPT ![n].main = "done"]
    /\ UNCHANGED <<stopCh, closedChans, adapter, panicked>>
    /\ UNCHANGED <<search, call, pages>>

NextScanner ==
    \/ ScanCall
    \/ ScanStreamCall
    \/ IsScanning
    \/ Stop
    \/ \E n \in 1..MaxScans : ContextDone(n)
    \/ \E n \in 1..MaxScans : AdapterScan(n)
    \/ \E n \in 1..MaxScans : Callback(n)
    \/ \E n \in 1..MaxScans : AdapterReturn(n)
    \/ \E n \in 1..MaxScans : StreamSendError(n)
    \/ \E n \in 1..MaxScans : StreamUnmark(n)
    \/ \E n \in 1..MaxScans : StreamClose(n)
    \/ \E n \in 1..MaxScans : Receive(n)
    \/ \E n \in 1..MaxScans : ScanSelect(n)
    \/ \E n \in 1..MaxScans : ScanWake(n)
    \/ \E n \in 1..MaxScans : ScanWaitDone(n)
    \/ \E n \in 1..MaxScans : ScanReturn(n)

SpecScanner == InitCalls /\ [][NextScanner]_vars

\* every goroutine that can take a step takes one, advertisements keep
\* coming while the adapter scans, and a stopped adapter returns; callers,
\* contexts and the reader of the results are free to do nothing
SpecScannerFair ==
    SpecScanner /\ \A n \in 1..MaxScans :
        /\ WF_vars(AdapterScan(n))
        /\ WF_vars(Callback(n))
        /\ WF_vars(AdapterReturn(n))
        /\ WF_vars(StreamSendError(n))
        /\ WF_vars(StreamUnmark(n))
        /\ WF_vars(StreamClose(n))
        /\ WF_vars(ScanSelect(n))
        /\ WF_vars(ScanWake(n))
        /\ WF_vars(ScanWaitDone(n))
        /\ WF_vars(ScanReturn(n))

-----------------------------------------------------------------------------
(* What the properties speak about *)

CallOptions == ResolveOptions(packet, opts, Now)

\* B and W of the calls
BaseCounter == TimeToCounter(CallOptions.ExpectedTime)

Window == CallOptions.SearchWindowDays

\* c lies in [b - w, b + w], as integers and not modulo 2^32
InWindow(b, c, w) ==
    \E d \in 0..w :
        \/ c = U32Add(b, ToUint32(d)) /\ U32Le(b, c)
        \/ c = U32Sub(b, ToUint32(d)) /\ U32Le(c, b)

InputsValid == ValidKeySize(key) /\ RawLen(packet.Payload) >= MinPacketSize

\* the low 10 bits of the 16-bit header
HeaderSeq == (packet.Payload.head[1] * 256 + packet.Payload.head[2]) % 1024

\* the packet's tag is the tag of raw[0:6] under the encryption key of (key, c, sequence)
TagMatches(c) ==
    /\ InputsValid
    /\ packet.Payload.tag =
          ComputeAuthTag(FullEncryptionKeyDerivation(key, c, ToUint32(HeaderSeq)).val,
                         packet.Payload.head).val

Sequences10 == {h \in Headers : h < 1024}

\* the packet was assembled with the key of the calls for counter T,
\* sequence S (upper header bits clear) and plaintext P
BuiltTable ==
    [K \in SenderKeys, T \in TrueCounters, S \in Sequences10, P \in Plaintexts |->
        BuildPacket(K, T, S, P)]

BuiltFor(T, S, P) == key \in SenderKeys /\ packet.Payload = BuiltTable[key, T, S, P]

Max(a, b) == IF a >= b THEN a ELSE b

Last(q) == q[Len(q)]

-----------------------------------------------------------------------------
(* C1 *)

\* C1: a packet assembled for (K, T, S, P), given to Decrypt with an expected
\* time whose counter is within the search window of T, comes back as the
\* result Payload = P, TimeCounter = T, SeqCounter = S.
C1_RoundTrip ==
    \A T \in TrueCounters, S \in Sequences10, P \in Plaintexts :
        (BuiltFor(T, S, P) /\ InWindow(BaseCounter, T, Window) /\ retD.done)
            => /\ retD.err = "nil"
               /\ retD.res.Payload = P
               /\ retD.res.TimeCounter = T
               /\ retD.res.SeqCounter = S

-----------------------------------------------------------------------------
(* C2 *)

\* C2: for a packet validly built for counter T, Decrypt and FindTimeCounter
\* succeed with T whenever |B - T| <= W and fail with ErrDecryptionFailed
\* whenever |B - T| > W, for every B including B < W.
C2_WindowBoundary ==
    \A T \in TrueCounters, S \in Sequences10, P \in Plaintexts :
        BuiltFor(T, S, P) =>
            /\ retD.done =>
                  IF InWindow(BaseCounter, T, Window)
                  THEN retD.err = "nil" /\ retD.res.TimeCounter = T
                  ELSE retD.err = "ErrDecryptionFailed"
            /\ retF.done =>
                  IF InWindow(BaseCounter, T, Window)
                  THEN retF.err = "nil" /\ retF.counter = T
                  ELSE retF.err = "ErrDecryptionFailed"

-----------------------------------------------------------------------------
(* C3 *)

\* C3: Decrypt tries the counters B - W .. B + W in strictly ascending order
\* and returns the first that authenticates: every candidate tried lies in
\* the window, each is greater than the one before, the returned counter is
\* the last one tried, and a failed search has tried the whole window.
C3_SearchOrder ==
    /\ \A i \in 1..Len(triedD) : InWindow(BaseCounter, triedD[i], Window)
    /\ \A i \in 1..(Len(triedD) - 1) : U32Lt(triedD[i], triedD[i + 1])
    /\ (retD.done /\ retD.err = "nil") =>
          /\ triedD # <<>>
          /\ retD.res.TimeCounter = Last(triedD)
          /\ \A i \in 1..(Len(triedD) - 1) : ~TagMatches(triedD[i])
    /\ (retD.done /\ retD.err = "ErrDecryptionFailed") =>
          \A d \in 0..Window :
              \A c \in {U32Add(BaseCounter, ToUint32(d)), U32Sub(BaseCounter, ToUint32(d))} :
                  InWindow(BaseCounter, c, Window) => \E i \in 1..Len(triedD) : triedD[i] = c

-----------------------------------------------------------------------------
(* C4 *)

\* C4: a call of Decrypt or FindTimeCounter tries at most 2*W + 1 candidate
\* counters (none when W is negative) before it returns.
C4_TriesBounded ==
    /\ Len(triedD) <= Max(0, 2 * Window + 1)
    /\ Len(triedF) <= Max(0, 2 * Window + 1)

-----------------------------------------------------------------------------
(* C5 *)

\* C5: Decrypt and DecryptWithKnownCounter (tryDecrypt) return a result only
\* if the packet's tag is the tag of raw[0:6] under the encryption key of
\* (key, returned TimeCounter, packet sequence); with an error the result is
\* nil; the stream cipher is run only for candidates whose tag verified.
C5_NoPlaintextWithoutAuth ==
    /\ \A r \in {retD, retK} :
          r.done =>
             /\ r.err = "nil" => (~r.res.nil /\ TagMatches(r.res.TimeCounter))
             /\ r.err # "nil" => r.res = NilResult
    /\ \A c \in ctrRuns : TagMatches(c)

\* Decrypt returned a result after a candidate that failed authentication, and
\* DecryptWithKnownCounter failed on a valid packet
C5_Witness ==
    /\ retD.done /\ retD.err = "nil" /\ Len(triedD) >= 2
    /\ ctrRuns = {retD.res.TimeCounter}
    /\ retK.done /\ retK.err = "ErrAuthenticationFail"

-----------------------------------------------------------------------------
(* C6 *)

\* C6: when key and packet pass validation and no candidate of the window
\* authenticates, Decrypt and FindTimeCounter return exactly
\* ErrDecryptionFailed, and they never return ErrAuthenticationFail.
C6_SearchExhaustion ==
    \A r \in {retD, retF} :
        r.done =>
           /\ r.err # "ErrAuthenticationFail"
           /\ (InputsValid /\ \A T \in TrueCounters :
                                 TagMatches(T) => ~InWindow(BaseCounter, T, Window))
                 => r.err = "ErrDecryptionFailed"

-----------------------------------------------------------------------------
(* C7 *)

ValidationErrors == {"ErrInvalidKey", "ErrPacketTooShort"}

\* C7: Decrypt, FindTimeCounter and DecryptWithKnownCounter return
\* ErrInvalidKey when the key length is not 16 or 32 (also when the packet
\* is too short as well), ErrPacketTooShort when the key is valid and the
\* payload is shorter than 10 bytes, and then no candidate was attempted.
C7_ValidationFirst ==
    \A r \in {retD, retF, retK} :
        r.done =>
           /\ ~ValidKeySize(key) => r.err = "ErrInvalidKey"
           /\ (ValidKeySize(key) /\ RawLen(packet.Payload) < MinPacketSize)
                 => r.err = "ErrPacketTooShort"
           /\ InputsValid => r.err \notin ValidationErrors
           /\ r.err \in ValidationErrors
                 => derivations = 0 /\ triedD = <<>> /\ triedF = <<>> /\ ctrRuns = {}

\* all three calls have returned for an invalid key and a 9-byte packet
C7_Witness ==
    /\ ~ValidKeySize(key) /\ RawLen(packet.Payload) = MinPacketSize - 1
    /\ retD.done /\ retF.done /\ retK.done
    /\ retD.err = "ErrInvalidKey"

\* all three calls have returned for a valid key and a 9-byte packet
C7_WitnessShort ==
    /\ ValidKeySize(key) /\ RawLen(packet.Payload) = MinPacketSize - 1
    /\ retD.done /\ retF.done /\ retK.done

-----------------------------------------------------------------------------
(* C8 *)

\* C8: if the key derivation of a candidate fails during the search, Decrypt
\* and FindTimeCounter return that error and not ErrDecryptionFailed.
C8_DerivationErrorPropagated ==
    /\ (retD.done /\ \E i \in 1..Len(triedD) :
            FullEncryptionKeyDerivation(key, triedD[i], ToUint32(HeaderSeq)).err # "nil")
          => retD.err \notin {"nil", "ErrDecryptionFailed"}
    /\ (retF.done /\ \E i \in 1..Len(triedF) :
            FullEncryptionKeyDerivation(key, triedF[i], ToUint32(HeaderSeq)).err # "nil")
          => retF.err \notin {"nil", "ErrDecryptionFailed"}

\* a candidate whose key derivation failed
C8_DerivationFails ==
    \E c \in {triedD[i] : i \in 1..Len(triedD)} \cup {triedF[i] : i \in 1..Len(triedF)} :
        FullEncryptionKeyDerivation(key, c, ToUint32(HeaderSeq)).err # "nil"

-----------------------------------------------------------------------------
(* C9 *)

\* C9: DecryptWithKnownCounter makes one attempt with the given counter: on
\* valid inputs it succeeds iff the packet authenticates under exactly that
\* counter, returning that counter, and otherwise returns
\* ErrAuthenticationFail, also when the next or previous counter authenticates.
C9_KnownCounterSingleAttempt ==
    (retK.done /\ InputsValid) =>
        IF TagMatches(retK.counter)
        THEN retK.err = "nil" /\ retK.res.TimeCounter = retK.counter
        ELSE retK.err = "ErrAuthenticationFail" /\ retK.res.nil

\* the call failed although the counter after the given one authenticates
C9_Witness ==
    /\ retK.done /\ retK.err = "ErrAuthenticationFail"
    /\ TagMatches(U32Inc(retK.counter))

-----------------------------------------------------------------------------
(* C10 *)

\* C10: with the same arguments FindTimeCounter returns counter c iff Decrypt
\* returns a result with TimeCounter = c, both fail with the same error, and
\* DecryptWithKnownCounter succeeds for the counter FindTimeCounter returned.
C10_FindAgreesWithDecrypt ==
    /\ (retD.done /\ retF.done) =>
          /\ retD.err = retF.err
          /\ retD.err = "nil" => retD.res.TimeCounter = retF.counter
          /\ triedD = triedF
    /\ (retF.done /\ retF.err = "nil") =>
          /\ DecryptWithKnownCounter(key, packet, retF.counter).err = "nil"
          /\ (retK.done /\ retK.counter = retF.counter) => retK.err = "nil"

\* both searches and the known-counter call succeeded with a counter that
\* is not the first of the window
C10_Witness ==
    /\ retD.done /\ retF.done /\ retK.done
    /\ retF.err = "nil" /\ Len(triedF) >= 2
    /\ retK.counter = retF.counter /\ retK.err = "nil"

\* both searches failed with ErrDecryptionFailed after trying candidates
C10_WitnessFail ==
    /\ retD.done /\ retF.done
    /\ retF.err = "ErrDecryptionFailed" /\ Len(triedF) >= 2

-----------------------------------------------------------------------------
(* C11 *)

\* the call's packet is the authentic packet of the call's key, counter T
\* and sequence 42 with one bit of its bytes 0..5 or of its bytes 6..9
\* changed: changing that bit back gives the authentic packet
TamperedFor(T) ==
    /\ key \in SenderKeys
    /\ RawLen(packet.Payload) >= MinPacketSize
    /\ LET original == BuiltTable[key, T, 42, TamperPlain]
       IN  /\ packet.Payload.body = original.body
           /\ \/ \E b \in 0..47 : FlipHead(packet.Payload, b) = original
              \/ \E b \in 0..31 : FlipTag(packet.Payload, {b}) = original

C11_WitnessTag ==
    \E T \in TamperCounters :
        /\ TamperedFor(T)
        /\ packet.Payload.tag.x = {31}
        /\ retD.done /\ retD.err = "ErrDecryptionFailed"
        /\ \E i \in 1..Len(triedD) : triedD[i] = T

-----------------------------------------------------------------------------
(* C12 *)

\* the packet with the upper six bits of its first byte set to hi
WithUpperBits(raw, hi) == [raw EXCEPT !.head[1] = hi * 4 + (@ % 4)]

\* C12: ParsePacket of a packet of at least 10 bytes succeeds whatever the
\* upper six bits of byte 0 are, and gives SequenceNumber = (256 * raw[0] +
\* raw[1]) mod 1024; the same packet with any other upper six bits parses to
\* the same SequenceNumber.
C12_SequenceMasked ==
    (call.fn = "ParsePacket" /\ RawLen(call.payload) >= 10) =>
        /\ call.out.err = "nil"
        /\ call.out.val.SequenceNumber
              = (256 * call.payload.head[1] + call.payload.head[2]) % 1024
        /\ \A hi \in 0..63 :
              LET other == ParsePacket(WithUpperBits(call.payload, hi))
              IN  /\ other.err = "nil"
                  /\ other.val.SequenceNumber = call.out.val.SequenceNumber

\* the packet with header 0xFFFF was parsed: its sequence number is 1023
C12_Witness ==
    /\ call.fn = "ParsePacket" /\ RawLen(call.payload) >= 10
    /\ call.payload.head[1] = 255 /\ call.payload.head[2] = 255
    /\ call.out.err = "nil" /\ call.out.val.SequenceNumber = 1023

-----------------------------------------------------------------------------
(* C13 *)

\* the bytes of a tag, one term for each byte present
TagBytes(tag) ==
    [i \in 1..tag.n |-> [mac |-> tag.mac, i |-> i, x |-> {b \in tag.x : b \div 8 = i - 1}]]

\* the bytes of a packet from offset 0 on
RawBytes(raw) == raw.head \o TagBytes(raw.tag) \o raw.body

C13_WitnessShort ==
    /\ call.fn = "ParsePacket" /\ RawLen(call.payload) = 9
    /\ call.out.err = "ErrPacketTooShort"

-----------------------------------------------------------------------------
(* C14 *)

\* the data with bit j of its byte i flipped
FlipData(data, i, j) == [data EXCEPT ![i] = FlipBit(@, j)]

\* C14: for a valid key and a 4-byte tag, VerifyAuthTag returns no error and
\* true exactly when the tag is ComputeAuthTag(key, data), which is the first
\* 4 bytes of ComputeFullCMAC(key, data); it returns false for the right tag
\* with one bit changed, and for the right tag of data that differs from the
\* call's data in one bit.
C14_TagVerification ==
    (call.fn = "VerifyAuthTag" /\ ValidKeySize(call.key) /\ call.tag.n = 4) =>
        LET computed == ComputeAuthTag(call.key, call.data)
            full == ComputeFullCMAC(call.key, call.data)
        IN  /\ call.out.err = "nil"
            /\ call.out.valid <=> (call.tag = computed.val)
            /\ full.err = "nil" /\ full.val.n = 16
            /\ computed.err = "nil" /\ computed.val = TagPrefix(full.val, 4)
            /\ (\E b \in 0..31 : call.tag = FlipTagBits(computed.val, {b}))
                  => ~call.out.valid
            /\ (\E i \in 1..Len(call.data), j \in 0..7 :
                    call.tag = ComputeAuthTag(call.key, FlipData(call.data, i, j)).val)
                  => ~call.out.valid

\* VerifyAuthTag returned true for the tag of the call's key and data
C14_Witness ==
    /\ call.fn = "VerifyAuthTag" /\ ValidKeySize(call.key) /\ call.tag.n = 4
    /\ call.out.err = "nil" /\ call.out.valid

\* VerifyAuthTag returned false for the right tag with its last bit flipped
C14_WitnessFlip ==
    /\ call.fn = "VerifyAuthTag" /\ ValidKeySize(call.key)
    /\ call.tag = FlipTagBits(ComputeAuthTag(call.key, call.data).val, {31})
    /\ call.out.err = "nil" /\ ~call.out.valid

\* VerifyAuthTag returned false for the tag of data that differs in one bit
C14_WitnessData ==
    /\ call.fn = "VerifyAuthTag" /\ ValidKeySize(call.key)
    /\ call.data = <<116>> /\ call.tag = ComputeAuthTag(call.key, <<117>>).val
    /\ call.out.err = "nil" /\ ~call.out.valid

-----------------------------------------------------------------------------
(* C15 *)

\* C15: VerifyAuthTag called with a tag that is not 4 bytes long returns an
\* error and false, whatever the tag bytes, the data and the key are, a key
\* of an invalid size included.
C15_TagLengthChecked ==
    (call.fn = "VerifyAuthTag" /\ call.tag.n # 4) =>
        (call.out.err # "nil" /\ ~call.out.valid)

\* the first 3 bytes of the right tag were given with a valid key
C15_Witness ==
    /\ call.fn = "VerifyAuthTag" /\ ValidKeySize(call.key)
    /\ call.tag = TagPrefix(ComputeAuthTag(call.key, call.data).val, 3)
    /\ call.out.err # "nil"

\* a 5-byte tag was given with a key of 24 bytes
C15_WitnessBadKey ==
    /\ call.fn = "VerifyAuthTag" /\ KeyLen(call.key) = 24 /\ call.tag.n = 5
    /\ call.out.err # "nil"

-----------------------------------------------------------------------------
(* C16 *)

\* the functions that take a key
KeyedFns ==
    {"ComputeAuthTag", "VerifyAuthTag", "ComputeFullCMAC", "SP800108CounterKDF",
     "DeriveKey", "DeriveNonceKey", "DeriveNonce", "DeriveEncryptionKeyIntermediate",
     "DeriveEncryptionKey", "FullNonceDerivation", "FullEncryptionKeyDerivation",
     "AESCTRDecrypt", "AESCTREncrypt", "Decrypt", "FindTimeCounter",
     "DecryptWithKnownCounter"}

\* the errors that refuse a key
KeyErrors ==
    {"key must be 16 or 32 bytes", "ErrInvalidKey", "failed to derive nonce key",
     "failed to derive intermediate key", "key derivation failed",
     "nonce derivation failed", "auth tag computation failed"}

\* the call returned its zero output: nil bytes, a nil result, false, no range
NoOutput(c) ==
    CASE c.fn \in {"ComputeAuthTag", "ComputeFullCMAC"} -> c.out.val = NilTag
      [] c.fn = "VerifyAuthTag" -> ~c.out.valid
      [] c.fn \in {"AESCTRDecrypt", "AESCTREncrypt"} -> c.out.val = <<>>
      [] c.fn \in {"Decrypt", "FindTimeCounter"} ->
            c.out = [NoRange EXCEPT !.err = c.out.err]
      [] c.fn = "DecryptWithKnownCounter" -> c.out.res = NilResult /\ ~c.out.ctr
      [] OTHER -> c.out.val = NilBytes

\* C16: every function that takes a key (VerifyAuthTag with a 4-byte tag)
\* returns an error that refuses the key, and no output, when the key is not
\* 16 or 32 bytes long, and refuses no key of 16 or 32 bytes for its size.
C16_KeySizeChecked ==
    (call.fn \in KeyedFns /\ (call.fn = "VerifyAuthTag" => call.tag.n = 4)) =>
        IF KeyLen(call.key) \notin {16, 32}
        THEN call.out.err \in KeyErrors /\ NoOutput(call)
        ELSE call.out.err \notin KeyErrors

\* the KDF was called with a key of 24 bytes and returned an error
C16_Witness ==
    /\ call.fn = "SP800108CounterKDF" /\ KeyLen(call.key) = 24
    /\ call.out.err # "nil" /\ call.out.val = NilBytes

\* Decrypt was called with an empty key and returned ErrInvalidKey
C16_WitnessDecrypt ==
    /\ call.fn = "Decrypt" /\ KeyLen(call.key) = 0
    /\ call.out.err = "ErrInvalidKey"

\* AES-CTR took a key of 32 bytes
C16_WitnessAccept ==
    /\ call.fn = "AESCTRDecrypt" /\ KeyLen(call.key) = 32
    /\ call.out.err = "nil" /\ Len(call.out.val) = MaxPayloadLen

-----------------------------------------------------------------------------
(* C17 *)

\* the fixed input F = label || 0x00 || context || be32(8 * n), for 8 * n < 2^16
FixedInputOf(label, context, n) ==
    label \o <<0>> \o context \o <<0, 0, (8 * n) \div 256, (8 * n) % 256>>

\* ceil(n / 16)
CeilBlocks(n) == IF n % 16 = 0 THEN n \div 16 ELSE n \div 16 + 1

\* C17: for a valid key, the KDF returns without error exactly outputLength
\* bytes: the first outputLength bytes of the concatenation of the
\* ceil(outputLength / 16) blocks MAC(key, be32(i) || F), i = 1, 2, ..., with
\* F = label || 0x00 || context || be32(8 * outputLength); so for the lengths
\* 0, 1, 8 and 24 too.
C17_KdfConstruction ==
    (call.fn = "SP800108CounterKDF" /\ ValidKeySize(call.key)) =>
        LET n == call.outputLen
            F == FixedInputOf(call.label, call.context, n)
        IN  /\ call.out.err = "nil"
            /\ call.out.val.len = n
            /\ Len(call.out.val.blocks) = CeilBlocks(n)
            /\ \A i \in 1..CeilBlocks(n) :
                  call.out.val.blocks[i] = CMAC(call.key, <<0, 0, 0, i>> \o F)

\* 24 bytes were asked for: two blocks, the second cut after 8 bytes
C17_Witness ==
    /\ call.fn = "SP800108CounterKDF" /\ ValidKeySize(call.key)
    /\ call.outputLen = 24
    /\ call.out.err = "nil" /\ call.out.val.len = 24 /\ Len(call.out.val.blocks) = 2

\* 0 bytes were asked for: no block, no error
C17_WitnessZero ==
    /\ call.fn = "SP800108CounterKDF" /\ ValidKeySize(call.key)
    /\ call.outputLen = 0
    /\ call.out.err = "nil" /\ call.out.val.len = 0 /\ call.out.val.blocks = <<>>

-----------------------------------------------------------------------------
(* C18 *)

ValidCallKeys == {k \in CallKeys : ValidKeySize(k)}

\* the byte string holds a 0x00 byte
HasZeroByte(str) == \E i \in 1..Len(str) : str[i] = 0

\* the number of places where two (key, label, context) triples differ
Differences(k1, l1, c1, k2, l2, c2) ==
    (IF k1 # k2 THEN 1 ELSE 0) + (IF l1 # l2 THEN 1 ELSE 0) + (IF c1 # c2 THEN 1 ELSE 0)

\* C18 as stated: for the output length of the call, every other triple
\* (key, label, context) gives a KDF output different from the call's.
C18_KdfSensitive ==
    (call.fn = "SP800108CounterKDF" /\ ValidKeySize(call.key)) =>
        \A k2 \in ValidCallKeys, l2 \in KdfLabels, c2 \in KdfContexts :
            Differences(call.key, call.label, call.context, k2, l2, c2) > 0 =>
                SP800108CounterKDF(k2, l2, c2, call.outputLen).val # call.out.val

\* C18 amended: for an output length of at least 1, another triple gives a
\* different KDF output when it differs from the call's in exactly one of
\* key, label and context, or when neither label holds a 0x00 byte.
C18_KdfSensitiveAmended ==
    (call.fn = "SP800108CounterKDF" /\ ValidKeySize(call.key) /\ call.outputLen >= 1) =>
        \A k2 \in ValidCallKeys, l2 \in KdfLabels, c2 \in KdfContexts :
            LET n == Differences(call.key, call.label, call.context, k2, l2, c2)
            IN  (n = 1 \/ (n > 1 /\ ~HasZeroByte(call.label) /\ ~HasZeroByte(l2))) =>
                    SP800108CounterKDF(k2, l2, c2, call.outputLen).val # call.out.val

\* the KDF was called for 16 bytes with label "a" and context "b"; label
\* "ab" with the empty context gives another output
C18_Witness ==
    /\ call.fn = "SP800108CounterKDF" /\ call.key = K16 /\ call.outputLen = 16
    /\ call.label = <<97>> /\ call.context = <<98>>
    /\ call.out.err = "nil"
    /\ SP800108CounterKDF(K16, <<97, 98>>, <<>>, 16).val # call.out.val

\* label "a" with context "\x00b" and label "a\x00" with context "b" give
\* the same 16 bytes
C18_Collision ==
    /\ call.fn = "SP800108CounterKDF" /\ call.key = K16 /\ call.outputLen = 16
    /\ call.label = <<97>> /\ call.context = <<0, 98>>
    /\ SP800108CounterKDF(K16, <<97, 0>>, <<98>>, 16) = call.out

-----------------------------------------------------------------------------
(* C19 *)

\* what a recorded call of Decrypt or FindTimeCounter returns up to its loop
\* when the clock reads t
EnterAt(c, t) ==
    IF c.fn = "Decrypt" THEN DecryptEnter(c.key, c.packet, c.opts, t)
    ELSE FindTimeCounterEnter(c.key, c.packet, c.opts, t)

\* the expected time the arguments of a call give: that of its last
\* WithExpectedTime option, else the timestamp of its packet
GivenTime(c) ==
    LET ets == SelectSeq(c.opts, LAMBDA o : o.kind = "ExpectedTime")
    IN  IF ets = <<>> THEN c.packet.Timestamp ELSE ets[Len(ets)].t

\* the window the arguments of a call give: that of its last WithSearchWindow
\* option, else 2
GivenWindow(c) ==
    LET ws == SelectSeq(c.opts, LAMBDA o : o.kind = "SearchWindow")
    IN  IF ws = <<>> THEN 2 ELSE ws[Len(ws)].days

\* C19 as stated: what Decrypt and FindTimeCounter work with (the error
\* returned at once, or the parsed packet and the range searched) depends on
\* the arguments of the call only: it is the same whenever the call is made.
C19_ResultOfArguments ==
    call.fn \in {"Decrypt", "FindTimeCounter"} =>
        \A t \in Clock : EnterAt(call, t) = call.out

\* C19 amended: it is the same whenever the call is made if the arguments
\* give a non-zero expected time; and the range searched is as wide as the
\* window of the call's own options, 2 without a WithSearchWindow option.
C19_ResultOfArgumentsAmended ==
    call.fn \in {"Decrypt", "FindTimeCounter"} =>
        /\ ~GivenTime(call).zero => \A t \in Clock : EnterAt(call, t) = call.out
        /\ call.out.err = "nil" =>
              U32Sub(call.out.maxCounter, call.out.minCounter)
                  = ToUint32(2 * GivenWindow(call))

\* Decrypt was called without options, at the later clock reading, for a
\* packet with a timestamp of day 20000: it searches the days 19998..20002
C19_Witness ==
    /\ call.fn = "Decrypt" /\ call.opts = <<>> /\ call.now # Now
    /\ call.packet.Timestamp = UnixTime(Day(20000))
    /\ call.out.err = "nil"
    /\ call.out.minCounter = ToUint32(19998) /\ call.out.maxCounter = ToUint32(20002)

\* Decrypt was called without options for a packet without a timestamp: at
\* the other clock reading it searches another range
C19_ClockRead ==
    /\ call.fn = "Decrypt" /\ call.opts = <<>> /\ call.packet.Timestamp = ZeroTime
    /\ call.out.err = "nil"
    /\ \E t \in Clock : EnterAt(call, t).minCounter # call.out.minCounter

-----------------------------------------------------------------------------
(* C20 *)

RECURSIVE DecValue(_)
\* the number a string of decimal digits writes, as a uint32 <<hi, lo>>;
\* fits is FALSE when the number needs more than 32 bits
DecValue(str) ==
    IF str = <<>> THEN [hi |-> 0, lo |-> 0, fits |-> TRUE]
    ELSE LET a == DecValue(SubSeq(str, 1, Len(str) - 1))
             lo == a.lo * 10 + (str[Len(str)] - 48)
             hi == a.hi * 10 + lo \div 65536
         IN  [hi |-> hi % 65536, lo |-> lo % 65536, fits |-> a.fits /\ hi < 65536]

\* str is the base-10 representation of the uint32 c: digits only, no sign,
\* no padding, no leading zero, and the number written is c
IsDecimalOf(str, c) ==
    /\ Len(str) >= 1
    /\ \A i \in 1..Len(str) : str[i] \in 48..57
    /\ Len(str) > 1 => str[1] # 48
    /\ LET v == DecValue(str) IN v.fits /\ <<v.hi, v.lo>> = c

\* the context of a derivation, read back from the input of its first MAC:
\* be32(1) || label || 0x00 || context || be32(8 * n)
ContextUsed(c) ==
    LET d == c.out.val.blocks[1].d
    IN  SubSeq(d, 4 + Len(c.label) + 2, Len(d) - 4)

\* C20: DeriveKey with a valid key returns what the KDF returns for the
\* context D(c), the base-10 representation of the counter c without sign,
\* padding or leading zeros; another counter gives another context and
\* another derived key.
C20_DecimalContext ==
    (call.fn = "DeriveKey" /\ ValidKeySize(call.key)) =>
        LET ctx == ContextUsed(call)
        IN  /\ call.out.err = "nil"
            /\ IsDecimalOf(ctx, call.counter)
            /\ call.out = SP800108CounterKDF(call.key, call.label, ctx, call.outputLen)
            /\ \A c2 \in CallCounters \ {call.counter} :
                  LET other == DeriveKey(call.key, call.outputLen, call.label, c2)
                  IN  /\ other.val # call.out.val
                      /\ ContextUsed([call EXCEPT !.out = other]) # ctx

\* DeriveKey was called with the counter 2^32 - 1: the context is "4294967295"
C20_Witness ==
    /\ call.fn = "DeriveKey" /\ ValidKeySize(call.key)
    /\ call.counter = <<65535, 65535>>
    /\ ContextUsed(call) = <<52, 50, 57, 52, 57, 54, 55, 50, 57, 53>>

\* DeriveKey was called with the counter 12345: the context is "12345"
C20_WitnessTest ==
    /\ call.fn = "DeriveKey" /\ ValidKeySize(call.key)
    /\ call.counter = ToUint32(12345)
    /\ ContextUsed(call) = <<49, 50, 51, 52, 53>>

-----------------------------------------------------------------------------
(* C21 *)

\* C21: for a master key of 16 or 32 bytes, DeriveNonceKey,
\* DeriveEncryptionKeyIntermediate and FullEncryptionKeyDerivation return as
\* many bytes as the master key has and FullNonceDerivation returns 12 bytes,
\* whatever the counters; ComputeAuthTag takes the derived key and
\* AESCTRDecrypt takes the derived key and the derived nonce.
C21_DerivedLengths ==
    /\ (call.fn \in {"DeriveNonceKey", "DeriveEncryptionKeyIntermediate",
                      "FullEncryptionKeyDerivation"} /\ KeyLen(call.key) \in {16, 32}) =>
          /\ call.out.err = "nil"
          /\ KeyLen(call.out.val) = KeyLen(call.key)
          /\ ComputeAuthTag(call.out.val, <<0, 42, 0, 0, 0, 0>>).err = "nil"
          /\ \A n \in CallNonces :
                KeyLen(n) = 12 => AESCTRDecrypt(call.out.val, n, TamperPlain).err = "nil"
    /\ (call.fn = "FullNonceDerivation" /\ KeyLen(call.key) \in {16, 32}) =>
          /\ call.out.err = "nil"
          /\ KeyLen(call.out.val) = 12
          /\ AESCTRDecrypt(call.key, call.out.val, TamperPlain).err = "nil"

\* the nonce of a 32-byte master key was derived: 12 bytes
C21_Witness ==
    /\ call.fn = "FullNonceDerivation" /\ KeyLen(call.key) = 32
    /\ call.out.err = "nil" /\ KeyLen(call.out.val) = 12

\* the encryption key of a 32-byte master key was derived: 32 bytes
C21_WitnessKey ==
    /\ call.fn = "FullEncryptionKeyDerivation" /\ KeyLen(call.key) = 32
    /\ call.out.err = "nil" /\ KeyLen(call.out.val) = 32

-----------------------------------------------------------------------------
(* api/packets.go: RetrievePacketsWithPagination against a server *)

\* the requests one retrieval is followed for
MaxRequests == 3

\* the packets a response carries at most
MaxPageLen == 2

\* RetrievePacketsOptions.Limit of the calls
Limits == {-1, 0, 1, 2, 3}

\* RetrievePacketsOptions.ContinuationToken of the calls
CallerTokens == {"", "t0"}

\* what the server answers to request i: an error, or up to MaxPageLen
\* packets (packet j of response i is <<i, j>>) with or without a
\* Continuation-Token header
ServerResponses(i) ==
    {[err |-> "nil", packets |-> [j \in 1..k |-> <<i, j>>], token |-> t] :
        k \in 0..MaxPageLen, t \in {"", "t1", "t2"}}
    \cup {[err |-> "error", packets |-> <<>>, token |-> ""]}

\* the body of the loop without the trimming to the limit
NextPage_NoTrim(all, limit, resp) ==
    LET packets == all \o resp.packets
    IN  IF limit > 0 /\ Len(packets) >= limit
        THEN [Packets |-> packets, token |-> resp.token, stop |-> TRUE]
        ELSE [Packets |-> packets, token |-> resp.token, stop |-> resp.token = ""]

\* the body of the loop after a response (lines 87-104): the packets so
\* far, the token of the response, and whether the loop ends
NextPage(all, limit, resp) ==
    LET packets == all \o resp.packets
    IN  IF limit > 0 /\ Len(packets) >= limit
        THEN [Packets |-> IF Len(packets) > limit THEN SubSeq(packets, 1, limit)
                          ELSE packets,
              token |-> resp.token, stop |-> TRUE]
        ELSE [Packets |-> packets, token |-> resp.token, stop |-> resp.token = ""]

RetrieveCall ==
    /\ pgPc = "idle"
    /\ \E limit \in Limits, token \in CallerTokens :
          /\ pgOpts' = [Limit |-> limit, ContinuationToken |-> token]
          /\ contToken' = token
    /\ allPackets' = <<>>
    /\ pgPc' = "loop"
    /\ UNCHANGED <<requests, responses, pgResult>>
    /\ UNCHANGED <<search, call, ble>>

\* one turn of the loop: the request with contToken, the response, and the
\* return when the request fails or the loop ends
RetrievePage ==
    /\ pgPc = "loop" /\ Len(requests) < MaxRequests
    /\ \E resp \in ServerResponses(Len(requests) + 1) :
          /\ requests' = Append(requests, contToken)
          /\ responses' = Append(responses, resp)
          /\ IF resp.err # "nil"
             THEN /\ pgResult' = [done |-> TRUE, Packets |-> <<>>,
                                  ContinuationToken |-> "", err |-> resp.err]
                  /\ pgPc' = "done"
                  /\ UNCHANGED <<allPackets, contToken>>
             ELSE LET step == NextPage(allPackets, pgOpts.Limit, resp)
                  IN  /\ allPackets' = step.Packets
                      /\ contToken' = step.token
                      /\ IF step.stop
                         THEN /\ pgResult' = [done |-> TRUE, Packets |-> step.Packets,
                                              ContinuationToken |-> step.token,
                                              err |-> "nil"]
                              /\ pgPc' = "done"
                         ELSE UNCHANGED <<pgResult, pgPc>>
    /\ UNCHANGED pgOpts
    /\ UNCHANGED <<search, call, ble>>

NextPages ==
    \/ RetrieveCall
    \/ RetrievePage

SpecPages == InitCalls /\ [][NextPages]_vars

-----------------------------------------------------------------------------
(* C22 *)

\* C22: for a valid key and a 12-byte nonce, AESCTREncrypt and AESCTRDecrypt
\* return without error as many bytes as they are given (none for none),
\* applying either of them to the output with the same key and nonce gives
\* the input back, and the input slice is left as it was.
C22_CtrSymmetry ==
    (call.fn \in {"AESCTREncrypt", "AESCTRDecrypt"}
       /\ ValidKeySize(call.key) /\ KeyLen(call.nonce) = 12) =>
        /\ call.out.err = "nil"
        /\ Len(call.out.val) = Len(call.data)
        /\ call.out.src = call.data
        /\ AESCTRDecrypt(call.key, call.nonce, call.out.val).val = call.data
        /\ AESCTREncrypt(call.key, call.nonce, call.out.val).val = call.data

\* a plaintext of MaxPayloadLen bytes was encrypted: the cipher text is not
\* the plaintext, and decrypts to it
C22_Witness ==
    /\ call.fn = "AESCTREncrypt" /\ call.key = K16 /\ KeyLen(call.nonce) = 12
    /\ call.data = TamperPlain
    /\ call.out.err = "nil" /\ call.out.val # call.data
    /\ AESCTRDecrypt(call.key, call.nonce, call.out.val).val = call.data

\* the empty byte string was encrypted: no error, no bytes
C22_WitnessEmpty ==
    /\ call.fn = "AESCTREncrypt" /\ ValidKeySize(call.key) /\ KeyLen(call.nonce) = 12
    /\ call.data = <<>> /\ call.out.err = "nil" /\ call.out.val = <<>>

-----------------------------------------------------------------------------
(* C23, C27 *)

\* the value of a magnitude below 2^31
MagInt(m) == m[5] * 16777216 + m[6] * 65536 + m[7] * 256 + m[8]

IsSmall(m) == SubSeq(m, 1, 4) = <<0, 0, 0, 0>> /\ m[5] < 128

\* the number of the UTC day of t, floor(unix_seconds(t) / 86400), as a sign
\* and a magnitude
FloorDay(t) ==
    LET q == LongDiv(t.unix.mag, SecondsPerDay, 0)
        exact == LongMul(q, SecondsPerDay, 0) = t.unix.mag
    IN  IF ~t.unix.neg THEN [neg |-> FALSE, mag |-> q]
        ELSE IF exact THEN [neg |-> MagInt(q) # 0, mag |-> q]
        ELSE [neg |-> TRUE, mag |-> LongMul(q, 1, 1)]

\* u is exactly one day after t
OneDayApart(t, u) ==
    \/ ~t.unix.neg /\ ~u.unix.neg /\ u.unix.mag = LongMul(t.unix.mag, 1, SecondsPerDay)
    \/ t.unix.neg /\ u.unix.neg /\ t.unix.mag = LongMul(u.unix.mag, 1, SecondsPerDay)
    \/ /\ t.unix.neg /\ ~u.unix.neg /\ IsSmall(t.unix.mag) /\ IsSmall(u.unix.mag)
       /\ MagInt(t.unix.mag) + MagInt(u.unix.mag) = SecondsPerDay

\* C23: TimeToCounter(t) is floor(unix_seconds(t) / 86400) as an unsigned
\* 32-bit value, before the epoch and beyond 32 bits of days too; two
\* instants of the same UTC day have the same counter and instants exactly
\* one day apart have counters that differ by 1.
C23_TimeCounterFloor ==
    call.fn = "TimeToCounter" =>
        /\ call.out = Int64ToUint32(FloorDay(call.t))
        /\ \A u \in CallTimes :
              /\ FloorDay(u) = FloorDay(call.t) => TimeToCounter(u) = call.out
              /\ OneDayApart(call.t, u) => TimeToCounter(u) = U32Inc(call.out)

\* the same at and after the epoch, where truncation is floor
C23_AfterEpoch ==
    (call.fn = "TimeToCounter" /\ ~call.t.unix.neg) =>
        /\ call.out = Int64ToUint32(FloorDay(call.t))
        /\ \A u \in CallTimes :
              /\ (~u.unix.neg /\ FloorDay(u) = FloorDay(call.t)) => TimeToCounter(u) = call.out
              /\ (~u.unix.neg /\ OneDayApart(call.t, u)) => TimeToCounter(u) = U32Inc(call.out)

RECURSIVE MagLe(_, _)
\* a <= b for magnitudes of one width
MagLe(a, b) ==
    IF a = <<>> THEN TRUE
    ELSE Head(a) < Head(b) \/ (Head(a) = Head(b) /\ MagLe(Tail(a), Tail(b)))

\* 00:00:00 UTC of the day of an instant t at or after the epoch
Midnight(t) ==
    [zero |-> FALSE,
     unix |-> [neg |-> FALSE,
               mag |-> LongMul(LongDiv(t.unix.mag, SecondsPerDay, 0), SecondsPerDay, 0)]]

\* CounterToTime(c) is 00:00:00 UTC of day c and maps back to c
CounterRoundTrip ==
    call.fn = "CounterToTime" =>
        /\ ~call.out.zero /\ ~call.out.unix.neg
        /\ LongDiv(call.out.unix.mag, SecondsPerDay, 0) = Uint32ToInt64(call.counter).mag
        /\ call.out = Midnight(call.out)
        /\ TimeToCounter(call.out) = call.counter

\* C27: for every counter c, CounterToTime(c) is 00:00:00 UTC of day c and
\* TimeToCounter(CounterToTime(c)) = c; for every time t at or after the
\* epoch, CounterToTime(TimeToCounter(t)) is midnight UTC of t's day and is
\* never later than t.
C27_RoundTrip ==
    /\ CounterRoundTrip
    /\ (call.fn = "TimeToCounter" /\ ~call.t.unix.neg) =>
          /\ CounterToTime(call.out) = Midnight(call.t)
          /\ MagLe(CounterToTime(call.out).unix.mag, call.t.unix.mag)

\* C27 for the times t whose day number fits in 32 bits: beyond them the
\* counter is the day number modulo 2^32 and CounterToTime gives the midnight
\* of an earlier day, still never later than t
C27_RoundTripAmended ==
    /\ CounterRoundTrip
    /\ (call.fn = "TimeToCounter" /\ ~call.t.unix.neg) =>
          /\ MagLe(CounterToTime(call.out).unix.mag, call.t.unix.mag)
          /\ SubSeq(FloorDay(call.t).mag, 1, 4) = <<0, 0, 0, 0>> =>
                CounterToTime(call.out) = Midnight(call.t)

\* the last counter was converted: a midnight whose seconds need more than
\* 32 bits, which maps back to the counter
C27_Witness ==
    /\ call.fn = "CounterToTime" /\ call.counter = <<Limb - 1, Limb - 1>>
    /\ SubSeq(call.out.unix.mag, 1, 4) # <<0, 0, 0, 0>>
    /\ TimeToCounter(call.out) = call.counter

\* noon of 2024-01-15 was converted to day 19738, whose midnight is earlier
C27_WitnessTime ==
    /\ call.fn = "TimeToCounter" /\ call.t = UnixTime(Day(19738) + 43200)
    /\ call.out = ToUint32(19738)
    /\ CounterToTime(call.out) = UnixTime(Day(19738))

-----------------------------------------------------------------------------
(* C24 *)

\* the expected time of a call as the options' documentation words it: the
\* last WithExpectedTime option when it is not zero, else the packet's
\* timestamp when it is not zero, else the current time
ClaimedTime(c) ==
    IF ~GivenTime(c).zero THEN GivenTime(c)
    ELSE IF ~c.packet.Timestamp.zero THEN c.packet.Timestamp
    ELSE c.now

\* the search range of a call that reached its loop is centred on the
\* counter of the time t
CentredOn(c, t) ==
    /\ U32Add(c.out.minCounter, ToUint32(GivenWindow(c))) = TimeToCounter(t)
    /\ U32Sub(c.out.maxCounter, ToUint32(GivenWindow(c))) = TimeToCounter(t)

\* C24: in Decrypt and FindTimeCounter the base counter comes from the
\* WithExpectedTime option when given, otherwise from the packet's Timestamp
\* when it is non-zero, otherwise from the current UTC time; a zero
\* ExpectedTime given explicitly falls back to the packet's timestamp before
\* the current time.
C24_ExpectedTimeSelection ==
    (call.fn \in {"Decrypt", "FindTimeCounter"} /\ call.out.err = "nil") =>
        CentredOn(call, ClaimedTime(call))

\* the same for the calls that give no zero time as an option
C24_WithoutZeroOption ==
    (call.fn \in {"Decrypt", "FindTimeCounter"} /\ call.out.err = "nil"
       /\ \A i \in 1..Len(call.opts) :
             call.opts[i].kind = "ExpectedTime" => ~call.opts[i].t.zero) =>
        CentredOn(call, ClaimedTime(call))

-----------------------------------------------------------------------------
(* C25 *)

\* the sequence counter and the payload length of a result of Decrypt
FieldsOfPacket(res) ==
    /\ res.SeqCounter = HeaderSeq /\ res.SeqCounter \in 0..1023
    /\ Len(res.Payload) = RawLen(packet.Payload) - 10

\* C25: whenever Decrypt returns a result, its TimeCounter c satisfies
\* baseCounter - W <= c <= baseCounter + W as integers, its SeqCounter is the
\* low 10 bits of the packet header and its Payload has len(packet) - 10
\* bytes.
C25_ResultFields ==
    (retD.done /\ ~retD.res.nil) =>
        /\ InWindow(BaseCounter, retD.res.TimeCounter, Window)
        /\ FieldsOfPacket(retD.res)

\* the same with the window taken modulo 2^32, as the loop of Decrypt walks it
C25_FieldsOnly ==
    (retD.done /\ ~retD.res.nil) => FieldsOfPacket(retD.res)

-----------------------------------------------------------------------------
(* C26 *)

\* the packet of the calls has bytes 0..9 of the authentic packet built with
\* the key for counter T, and other bytes after them
SubstitutedFor(T) ==
    /\ key \in SenderKeys
    /\ LET original == BuiltTable[key, T, 42, TamperPlain]
       IN  /\ packet.Payload.head = original.head
           /\ packet.Payload.tag = original.tag
           /\ packet.Payload.body # original.body

\* the counter-mode decryption of the bytes from offset 10 on under (key, T)
DecryptedBody(T) ==
    AESCTRDecrypt(FullEncryptionKeyDerivation(key, T, ToUint32(HeaderSeq)).val,
                  FullNonceDerivation(key, T, ToUint32(HeaderSeq)).val,
                  packet.Payload.body).val

\* C26: the bytes from offset 10 on take no part in authentication: a packet
\* that keeps bytes 0..9 of a packet authentic under counter T and has other
\* bytes after them (replaced, fewer or more) is accepted as soon as the
\* search reaches T, by Decrypt with TimeCounter T, the sequence counter of
\* the header and the counter-mode decryption of the bytes it carries, by
\* FindTimeCounter with T, and by DecryptWithKnownCounter given T.
C26_PayloadNotAuthenticated ==
    \A T \in TamperCounters :
        SubstitutedFor(T) =>
            /\ (\E i \in 1..Len(triedD) : triedD[i] = T) =>
                  /\ retD.done /\ retD.err = "nil" /\ ~retD.res.nil
                  /\ retD.res.TimeCounter = T
                  /\ retD.res.SeqCounter = HeaderSeq
                  /\ retD.res.Payload = DecryptedBody(T)
            /\ (\E i \in 1..Len(triedF) : triedF[i] = T) =>
                  /\ retF.done /\ retF.err = "nil" /\ retF.counter = T
            /\ (retK.done /\ retK.counter = T) =>
                  /\ retK.err = "nil" /\ ~retK.res.nil
                  /\ retK.res.Payload = DecryptedBody(T)

\* a packet whose encrypted bytes were replaced was accepted by Decrypt with
\* the counter of the authentic packet; the payload returned is not the
\* plaintext that was sent
C26_Witness ==
    /\ SubstitutedFor(ToUint32(20002))
    /\ Len(packet.Payload.body) = MaxPayloadLen
    /\ retD.done /\ ~retD.res.nil /\ retD.res.TimeCounter = ToUint32(20002)
    /\ retD.res.Payload # TamperPlain
    /\ retF.done /\ retF.counter = ToUint32(20002)

\* the same for a packet with one more byte after the encrypted bytes
C26_WitnessExtended ==
    /\ SubstitutedFor(ToUint32(3))
    /\ Len(packet.Payload.body) = MaxPayloadLen + 1
    /\ retD.done /\ ~retD.res.nil /\ Len(retD.res.Payload) = MaxPayloadLen + 1

-----------------------------------------------------------------------------
(* C28, C29 *)

\* adapter.Scan of scan n has returned
AdapterDone(n) == scans[n].routine \in {"returned", "deferred", "close", "done"}

\* scan n is in progress: started, and its mark not yet cleared by it
InProgress(n) ==
    /\ scans[n].kind # "none"
    /\ IF scans[n].kind = "Scan" THEN scans[n].main # "done"
       ELSE scans[n].routine \notin {"close", "done"}

\* scan n has cleared the mark: IsScanning() is false until a next scan
Released(n) == scans[n].kind # "none" /\ ~InProgress(n)

\* at most one scan is in progress, it is the one the Scanner is marked for,
\* and the adapter scans for no other
C28_OneScanAtATime ==
    /\ Cardinality({n \in 1..MaxScans : InProgress(n)}) <= 1
    /\ scanning <=> \E n \in 1..MaxScans : InProgress(n)
    /\ adapter.owner # 0 => InProgress(adapter.owner)
    /\ \A n \in 1..MaxScans : scans[n].routine = "scanning" => adapter.owner = n

\* a Scan or ScanStream call made while a scan is in progress changes
\* nothing: no scan is started, the adapter is left alone
C28_RejectedWhileScanning ==
    [][(scanning /\ (ScanCall \/ ScanStreamCall)) => UNCHANGED ble]_vars

\* C28: at most one scan is active on a Scanner, a call made during a scan
\* starts nothing, and after every scan ends (its adapter.Scan has returned,
\* for whatever reason) the scan clears the mark, so that IsScanning()
\* becomes false and a later scan can start.
C28_ScanningReleased ==
    \A n \in 1..MaxScans : (scans[n].kind # "none" /\ AdapterDone(n)) ~> Released(n)

\* C29: if Stop() is called while a scan is in progress, the adapter scan
\* is stopped, the results channel is closed and the mark is cleared, with
\* neither a timeout nor a cancellation; Stop never closes a closed channel.
C29_StopStopsScan ==
    \A n \in 1..MaxScans : scans[n].stopped ~> AdapterDone(n)

\* no channel is closed twice, however often Stop is called
C29_NoDoubleClose == ~panicked

-----------------------------------------------------------------------------
(* C30 *)

RECURSIVE Concat(_)
\* the packets of the responses, in the order of the requests
Concat(rs) == IF rs = <<>> THEN <<>> ELSE Head(rs).packets \o Concat(Tail(rs))

\* the limit is reached with the first i responses
LimitReached(i) ==
    pgOpts.Limit > 0 /\ Len(Concat(SubSeq(responses, 1, i))) >= pgOpts.Limit

\* C30: the first request carries the caller's continuation token, each
\* later request the Continuation-Token of the response before it; the
\* requests stop at the first response without a token or once Limit > 0
\* packets are collected; the result is the pages concatenated in request
\* order, cut to Limit packets when Limit > 0, with a non-empty continuation
\* token exactly when the last response carried one.
C30_Pagination ==
    /\ Len(requests) >= 1 => requests[1] = pgOpts.ContinuationToken
    /\ \A i \in 2..Len(requests) : requests[i] = responses[i - 1].token
    /\ \A i \in 1..(Len(requests) - 1) :
          responses[i].err = "nil" /\ responses[i].token # "" /\ ~LimitReached(i)
    /\ (pgResult.done /\ pgResult.err = "nil") =>
          LET all == Concat(responses)
              last == responses[Len(responses)]
          IN  /\ last.token = "" \/ LimitReached(Len(responses))
              /\ pgResult.Packets =
                    IF pgOpts.Limit > 0 /\ Len(all) > pgOpts.Limit
                    THEN SubSeq(all, 1, pgOpts.Limit) ELSE all
              /\ pgOpts.Limit > 0 => Len(pgResult.Packets) <= pgOpts.Limit
              /\ pgResult.ContinuationToken = last.token
              /\ pgResult.ContinuationToken # "" <=> last.token # ""
    /\ (pgPc = "loop" /\ Len(responses) >= 1) =>
          /\ contToken = responses[Len(responses)].token
          /\ allPackets = Concat(responses)

\* three pages were fetched, the first request with the caller's token; the
\* limit was reached inside the last page, which was cut, and the token of
\* the last response is returned
C30_Witness ==
    /\ pgResult.done /\ pgResult.err = "nil"
    /\ pgOpts = [Limit |-> 3, ContinuationToken |-> "t0"]
    /\ requests = <<"t0", "t1", "t2">>
    /\ Len(Concat(responses)) = 4
    /\ pgResult.Packets = <<<<1, 1>>, <<2, 1>>, <<3, 1>>>>
    /\ pgResult.ContinuationToken = "t1"

\* without a limit the retrieval ended at the first response without a token
C30_WitnessLastPage ==
    /\ pgResult.done /\ pgResult.err = "nil" /\ pgOpts.Limit = 0
    /\ Len(requests) = 2 /\ pgResult.ContinuationToken = ""
    /\ Len(pgResult.Packets) = 2 * MaxPageLen

====
